---- MODULE Spec2Model ----
(***************************************************************************)
(* forgeflare: agent loop, context-window manager, stream decoder and tool *)
(* dispatch, modelled from src/src/main.rs, src/src/api.rs and             *)
(* src/src/tools/mod.rs.                                                   *)
(*                                                                         *)
(* Text is kept as a canonical sequence of runs [c, n]: n copies of the    *)
(* character c.  CharW(c) is the character's UTF-8 width (String::len      *)
(* counts bytes) and CharE(c) its width inside a serde_json string literal.*)
(***************************************************************************)
EXTENDS Integers, Sequences, FiniteSets, TLC

VARIABLES
    conversation,     \* main: Vec<Message>
    pc,               \* main: position of the control thread
    tool_iterations,  \* main: per-turn counter
    tool_results,     \* main: batch under construction
    cursor,           \* main: index of the next block of the for loop
    inflight,         \* ids of the tool calls whose function is executing
    started,          \* history: ids of the tool functions invoked in this batch
    turns,            \* history: user turns started
    requests,         \* history: requests sent in the current turn
    batches,          \* history: tool-result batches produced in the current turn
    outcome,          \* history: how the last finished turn ended
    event,            \* SseParser.event
    blocks,           \* SseParser.blocks
    fragments,        \* SseParser.fragments
    stop_reason,      \* SseParser.stop_reason
    message_complete, \* SseParser.message_complete
    decoded,          \* result of process_line / finish
    feed,             \* history: what the sender has put on the stream
    arg,              \* input of the function under check
    ret,              \* its result
    fpc,              \* "ready" before the call, "done" after
    child             \* the process spawned by bash_exec

agentVars == <<conversation, pc, tool_iterations, tool_results, cursor,
               inflight, started, turns, requests, batches, outcome>>
parserVars == <<event, blocks, fragments, stop_reason, message_complete,
                decoded, feed>>
fnVars == <<arg, ret, fpc, child>>
vars == <<conversation, pc, tool_iterations, tool_results, cursor, inflight,
          started, turns, requests, batches, outcome, event, blocks, fragments, stop_reason,
          message_complete, decoded, feed, arg, ret, fpc, child>>

----------------------------------------------------------------------------
(* Program constants *)

MAX_CONVERSATION_BYTES == 720000
MAX_TOOL_ITERATIONS == 50
TRUNCATE_ELIGIBLE == 10000
TRUNCATE_KEEP_MIN == 1000

----------------------------------------------------------------------------
(* Strings *)

Max(a, b) == IF a >= b THEN a ELSE b
Min(a, b) == IF a <= b THEN a ELSE b
SatSub(a, b) == IF a >= b THEN a - b ELSE 0

\* a run's unit is one character, or a short ASCII literal taken whole
CharW(c) ==
    CASE c = "E_ACUTE" -> 2
      [] c = "EURO" -> 3
      [] c = "NL" -> 1
      [] c = "QUOTE" -> 1
      [] OTHER -> Len(c)

CharE(c) ==
    CASE c = "E_ACUTE" -> 2
      [] c = "EURO" -> 3
      [] c = "NL" -> 2
      [] c = "QUOTE" -> 2
      [] OTHER -> Len(c)

Run(c, n) == [c |-> c, n |-> n]

RECURSIVE TextLen(_)
TextLen(t) ==
    IF t = <<>> THEN 0 ELSE CharW(t[1].c) * t[1].n + TextLen(Tail(t))

RECURSIVE SerTextLen(_)
SerTextLen(t) ==
    IF t = <<>> THEN 0 ELSE CharE(t[1].c) * t[1].n + SerTextLen(Tail(t))

\* String::push_str
PushStr(t, s) ==
    IF s = <<>> THEN t
    ELSE IF t = <<>> THEN s
    ELSE IF t[Len(t)].c = s[1].c
         THEN SubSeq(t, 1, Len(t) - 1)
                \o <<Run(s[1].c, t[Len(t)].n + s[1].n)>> \o Tail(s)
         ELSE t \o s

Lit(s) == <<Run(s, 1)>>

RECURSIVE Str(_)
Str(cs) == IF cs = <<>> THEN <<>> ELSE PushStr(<<Run(cs[1], 1)>>, Str(Tail(cs)))

\* str::floor_char_boundary: the largest character boundary <= index
RECURSIVE floor_char_boundary(_, _)
floor_char_boundary(t, index) ==
    IF t = <<>> THEN 0
    ELSE LET w == CharW(t[1].c)
             b == w * t[1].n
         IN IF index >= b
            THEN b + floor_char_boundary(Tail(t), index - b)
            ELSE (index \div w) * w

\* String::truncate(end), end on a character boundary
RECURSIVE Truncate(_, _)
Truncate(t, end) ==
    IF t = <<>> \/ end <= 0 THEN <<>>
    ELSE LET w == CharW(t[1].c)
             b == w * t[1].n
         IN IF end >= b
            THEN <<t[1]>> \o Truncate(Tail(t), end - b)
            ELSE IF end \div w = 0 THEN <<>>
                 ELSE <<Run(t[1].c, end \div w)>>

TruncationMarker ==
    Str(<<"NL", ".", ".", ".", " ", "(", "t", "r", "u", "n", "c", "a", "t",
          "e", "d", " ", "t", "o", " ", "f", "i", "t", " ", "c", "o", "n",
          "t", "e", "x", "t", " ", "w", "i", "n", "d", "o", "w", ")">>)

----------------------------------------------------------------------------
(* Content model (api.rs) *)

NullValue == [t |-> "null"]
ObjectValue(f) == [t |-> "object", f |-> f]
NumberValue(n) == [t |-> "number", n |-> n]
StringValue(s) == [t |-> "string", s |-> s]
BoolValue(b) == [t |-> "bool", b |-> b]

is_null(v) == v.t = "null"

RECURSIVE Digits(_)
Digits(n) == IF n < 10 THEN 1 ELSE 1 + Digits(n \div 10)

RECURSIVE ValueLen(_)
RECURSIVE FieldsLen(_, _)
\* serde_json::to_string of a Value
ValueLen(v) ==
    CASE v.t = "null" -> 4
      [] v.t = "number" -> Digits(v.n)
      [] v.t = "string" -> Len(v.s) + 2
      [] v.t = "bool" -> IF v.b THEN 4 ELSE 5
      [] v.t = "object" ->
            IF DOMAIN v.f = {} THEN 2
            ELSE 2 + FieldsLen(v.f, DOMAIN v.f) + Cardinality(DOMAIN v.f) - 1
FieldsLen(f, ks) ==
    IF ks = {} THEN 0
    ELSE LET k == CHOOSE x \in ks : TRUE
         IN Len(k) + 3 + ValueLen(f[k]) + FieldsLen(f, ks \ {k})

None == "None"
SomeTrue == "Some(true)"

Text(t) == [type |-> "text", text |-> t]
ToolUse(id, name, input) ==
    [type |-> "tool_use", id |-> id, name |-> name, input |-> input]
ToolResult(id, content, is_error) ==
    [type |-> "tool_result", tool_use_id |-> id, content |-> content,
     is_error |-> is_error]

Message(role, content) == [role |-> role, content |-> content]

\* serde_json::to_string(&ContentBlock).len()
BlockBytes(b) ==
    CASE b.type = "text" -> 25 + SerTextLen(b.text)
      [] b.type = "tool_use" ->
            25 + Len(b.id) + 10 + Len(b.name) + 10 + ValueLen(b.input) + 1
      [] b.type = "tool_result" ->
            37 + Len(b.tool_use_id) + 13 + SerTextLen(b.content) + 1
               + (IF b.is_error = None THEN 0 ELSE 16) + 1

RECURSIVE BlocksBytes(_)
BlocksBytes(bs) ==
    IF bs = <<>> THEN 0 ELSE BlockBytes(bs[1]) + BlocksBytes(Tail(bs))

\* serde_json::to_string(&Message).len()
MessageBytes(m) ==
    (IF m.role = "user" THEN 26 ELSE 31)
      + BlocksBytes(m.content) + Max(Len(m.content) - 1, 0) + 2

\* the sum of the messages' sizes, taken half by half
RECURSIVE ConversationBytes(_)
ConversationBytes(c) ==
    IF c = <<>> THEN 0
    ELSE IF Len(c) = 1 THEN MessageBytes(c[1])
    ELSE LET half == Len(c) \div 2
         IN ConversationBytes(SubSeq(c, 1, half))
              + ConversationBytes(SubSeq(c, half + 1, Len(c)))

FirstIs(m, type) == m.content # <<>> /\ m.content[1].type = type

----------------------------------------------------------------------------
(* Error recovery and context-window manager (main.rs) *)

\* pops the trailing user message only
recover_conversation_UserOnly(c) ==
    IF c # <<>> /\ c[Len(c)].role = "user" THEN SubSeq(c, 1, Len(c) - 1) ELSE c

recover_conversation(c) ==
    IF c # <<>> /\ c[Len(c)].role = "user"
    THEN LET popped == c[Len(c)]
             rest == SubSeq(c, 1, Len(c) - 1)
             was_tool_results == FirstIs(popped, "tool_result")
         IN IF was_tool_results /\ rest # <<>> /\ rest[Len(rest)].role = "assistant"
            THEN SubSeq(rest, 1, Len(rest) - 1)
            ELSE rest
    ELSE c

\* the text is cut where the shortfall ends, inside a character or not
CutPoint_Raw(text, remaining) ==
    Min(Max(SatSub(TextLen(text), remaining), TRUNCATE_KEEP_MIN), TextLen(text))

\* main.rs 134-135: keep, snapped down to a character boundary
CutPoint(text, remaining) ==
    floor_char_boundary(text, Max(SatSub(TextLen(text), remaining), TRUNCATE_KEEP_MIN))

\* the end of the text is kept instead of its beginning
TruncateBlock_KeepEnd(b, remaining) ==
    IF remaining = 0 \/ b.type = "tool_use"
    THEN [block |-> b, remaining |-> remaining]
    ELSE LET text == IF b.type = "tool_result" THEN b.content ELSE b.text
             len == TextLen(text)
         IN IF len > TRUNCATE_ELIGIBLE
            THEN LET end == CutPoint(text, remaining)
                     rev == [i \in 1..Len(text) |-> text[Len(text) + 1 - i]]
                     cut == Truncate(rev, end)
                     new == PushStr([i \in 1..Len(cut) |-> cut[Len(cut) + 1 - i]],
                                    TruncationMarker)
                 IN [block |-> IF b.type = "tool_result"
                               THEN [b EXCEPT !.content = new]
                               ELSE [b EXCEPT !.text = new],
                     remaining |-> SatSub(remaining, len - end)]
            ELSE [block |-> b, remaining |-> remaining]

\* body of the for loop of truncate_oversized_blocks for one block
TruncateBlock(b, remaining) ==
    IF remaining = 0 \/ b.type = "tool_use"
    THEN [block |-> b, remaining |-> remaining]
    ELSE LET text == IF b.type = "tool_result" THEN b.content ELSE b.text
             len == TextLen(text)
         IN IF len > TRUNCATE_ELIGIBLE
            THEN LET end == CutPoint(text, remaining)
                     new == PushStr(Truncate(text, end), TruncationMarker)
                 IN [block |-> IF b.type = "tool_result"
                               THEN [b EXCEPT !.content = new]
                               ELSE [b EXCEPT !.text = new],
                     remaining |-> SatSub(remaining, len - end)]
            ELSE [block |-> b, remaining |-> remaining]

RECURSIVE TruncateBlocks(_, _)
TruncateBlocks(bs, remaining) ==
    IF bs = <<>> THEN [blocks |-> <<>>, remaining |-> remaining]
    ELSE LET h == TruncateBlock(bs[1], remaining)
             r == TruncateBlocks(Tail(bs), h.remaining)
         IN [blocks |-> <<h.block>> \o r.blocks, remaining |-> r.remaining]

\* the outer for loop, messages in order, the first half before the second
RECURSIVE TruncateMessages(_, _)
TruncateMessages(c, remaining) ==
    IF c = <<>> THEN [messages |-> <<>>, remaining |-> remaining]
    ELSE IF Len(c) = 1
    THEN LET h == TruncateBlocks(c[1].content, remaining)
         IN [messages |-> <<[c[1] EXCEPT !.content = h.blocks]>>,
             remaining |-> h.remaining]
    ELSE LET half == Len(c) \div 2
             l == TruncateMessages(SubSeq(c, 1, half), remaining)
             r == TruncateMessages(SubSeq(c, half + 1, Len(c)), l.remaining)
         IN [messages |-> l.messages \o r.messages, remaining |-> r.remaining]

\* the deficit is taken to be the whole size of the conversation
truncate_oversized_blocks_WholeSize(c, max_bytes) ==
    LET total == ConversationBytes(c)
    IN IF total <= max_bytes THEN c
       ELSE TruncateMessages(c, total).messages

truncate_oversized_blocks(c, max_bytes) ==
    LET total == ConversationBytes(c)
    IN IF total <= max_bytes THEN c
       ELSE TruncateMessages(c, total - max_bytes).messages

\* every user message counted as a boundary
Boundaries_AnyUser(c) ==
    SelectSeq([i \in 1..Len(c) |-> i], LAMBDA i : c[i].role = "user")

\* indices (1-based) of the user messages whose first block is Text
Boundaries(c) ==
    SelectSeq([i \in 1..Len(c) |-> i],
              LAMBDA i : c[i].role = "user" /\ FirstIs(c[i], "text"))

\* the drain also taking the boundary message itself
Drain_PastBoundary(c, cut) == SubSeq(c, cut + 1, Len(c))

\* conversation.drain(..cut): the messages from the boundary on remain
Drain(c, cut) == SubSeq(c, cut, Len(c))

\* the size of the dropped prefix compared with the budget
RECURSIVE FirstFit_Prefix(_, _, _)
FirstFit_Prefix(c, bs, max_bytes) ==
    IF bs = <<>> THEN 0
    ELSE IF ConversationBytes(SubSeq(c, 1, bs[1] - 1)) <= max_bytes THEN bs[1]
    ELSE FirstFit_Prefix(c, Tail(bs), max_bytes)

\* the first boundary of bs whose suffix fits, 0 when there is none
RECURSIVE FirstFit(_, _, _)
FirstFit(c, bs, max_bytes) ==
    IF bs = <<>> THEN 0
    ELSE IF ConversationBytes(Drain(c, bs[1])) <= max_bytes THEN bs[1]
    ELSE FirstFit(c, Tail(bs), max_bytes)

\* the size is not compared with the budget on entry
trim_conversation_Unchecked(c, max_bytes) ==
    LET boundaries == Boundaries(c)
        keep_last == SatSub(Len(boundaries), 1)
    IN IF keep_last = 0 THEN truncate_oversized_blocks(c, max_bytes)
       ELSE LET cut == FirstFit(c, Tail(boundaries), max_bytes)
            IN IF cut # 0 THEN Drain(c, cut)
               ELSE truncate_oversized_blocks(
                        Drain(c, boundaries[keep_last + 1]), max_bytes)

trim_conversation(c, max_bytes) ==
    LET total == ConversationBytes(c)
        boundaries == Boundaries(c)
        keep_last == SatSub(Len(boundaries), 1)
    IN IF total <= max_bytes THEN c
       ELSE IF keep_last = 0 THEN truncate_oversized_blocks(c, max_bytes)
       ELSE LET cut == FirstFit(c, Tail(boundaries), max_bytes)
            IN IF cut # 0 THEN Drain(c, cut)
               ELSE truncate_oversized_blocks(
                        Drain(c, boundaries[keep_last + 1]), max_bytes)

----------------------------------------------------------------------------
(* Tool registry and dispatch (tools/mod.rs) *)

Ok(s) == [ok |-> TRUE, s |-> s]
Err(s) == [ok |-> FALSE, s |-> s]

ToolNames == {"read_file", "list_files", "bash", "edit_file", "code_search"}

\* format!("tool '{name}' not found")
NotFoundText(name) == PushStr(PushStr(Lit("tool '"), Lit(name)), Lit("' not found"))

\* a failure of the tool function is not flagged
dispatch_tool_Unflagged(name, input, id, out) ==
    LET r == IF name \in ToolNames
             THEN <<out.s, None>>
             ELSE <<NotFoundText(name), SomeTrue>>
    IN ToolResult(id, r[1], r[2])

\* out is what the tool function $func(input) returned
dispatch_tool(name, input, id, out) ==
    LET r == IF name \in ToolNames
             THEN IF out.ok THEN <<out.s, None>> ELSE <<out.s, SomeTrue>>
             ELSE <<NotFoundText(name), SomeTrue>>
    IN ToolResult(id, r[1], r[2])

----------------------------------------------------------------------------
(* edit_file (tools/mod.rs) *)

MAX_READ_SIZE == 1048576

MaxFileLen == 3
MaxStrLen == 2

\* an argument of the input object: as_str() gives Some(v) or None
Some(v) == [some |-> TRUE, v |-> v]
NoArg == [some |-> FALSE]

\* the target of an edit: whether it exists, whether its parent directory
\* does, its contents as a sequence of characters, and the bytes it holds
\* beyond them; file system calls on it succeed
File(content, extra) ==
    [exists |-> TRUE, parent |-> TRUE, content |-> content, extra |-> extra]
Missing(parent) == [exists |-> FALSE, parent |-> parent, content |-> <<>>, extra |-> 0]

FileSize(f) == Len(f.content) + f.extra

StartsAt(content, pat, i) ==
    i + Len(pat) - 1 <= Len(content) /\ SubSeq(content, i, i + Len(pat) - 1) = pat

\* str::matches(pat).count(): the matches found scanning left to right, each
\* search resuming after the end of the previous match
RECURSIVE CountFrom(_, _, _)
CountFrom(content, pat, i) ==
    IF i + Len(pat) - 1 > Len(content) THEN 0
    ELSE IF StartsAt(content, pat, i)
         THEN 1 + CountFrom(content, pat, i + Len(pat))
         ELSE CountFrom(content, pat, i + 1)

matches_count(content, pat) == CountFrom(content, pat, 1)

\* str::replacen(pat, to, 1): the first match replaced
replacen(content, pat, to) ==
    IF \E i \in 1..Len(content) : StartsAt(content, pat, i)
    THEN LET i == CHOOSE k \in 1..Len(content) :
                     /\ StartsAt(content, pat, k)
                     /\ \A j \in 1..(k - 1) : ~StartsAt(content, pat, j)
         IN SubSeq(content, 1, i - 1) \o to
              \o SubSeq(content, i + Len(pat), Len(content))
    ELSE content

EditResult(r, fs) == [result |-> r, fs |-> fs]

FoundTimes(n) ==
    PushStr(PushStr(Lit("old_str found "), Lit(ToString(n))),
            Lit(" times, must be unique"))

ExceedsLimit(path_s, len) ==
    PushStr(PushStr(PushStr(PushStr(PushStr(
        Lit(path_s), Lit(": ")), Lit(ToString(len \div 1024))), Lit("KB exceeds ")),
        Lit(ToString(MAX_READ_SIZE \div 1024))), Lit("KB edit limit"))

\* equal strings are rejected only when they are not empty
SameStrings_NonEmpty(old_str, new_str) == old_str = new_str /\ old_str # <<>>

\* tools/mod.rs 212
SameStrings(old_str, new_str) == old_str = new_str

\* the file is written without its parent directories being created
edit_exec_NoMkdir(input, fs) ==
    IF ~input.path.some THEN EditResult(Err(Lit("path is required")), fs)
    ELSE IF ~input.old_str.some THEN EditResult(Err(Lit("old_str is required")), fs)
    ELSE IF ~input.new_str.some THEN EditResult(Err(Lit("new_str is required")), fs)
    ELSE LET path_s == input.path.v
             old_str == input.old_str.v
             new_str == input.new_str.v
         IN IF SameStrings(old_str, new_str)
            THEN EditResult(Err(Lit("old_str and new_str must differ")), fs)
            ELSE IF ~fs.exists /\ old_str = <<>> /\ ~fs.parent
            THEN EditResult(Err(Lit("write: No such file or directory (os error 2)")),
                            fs)
            ELSE IF ~fs.exists /\ old_str = <<>>
            THEN EditResult(Ok(PushStr(Lit("Created "), Lit(path_s))),
                            File(new_str, 0))
            ELSE IF ~fs.exists
            THEN EditResult(Err(PushStr(Lit(path_s),
                                        Lit(": No such file or directory (os error 2)"))),
                            fs)
            ELSE IF FileSize(fs) > MAX_READ_SIZE
            THEN EditResult(Err(ExceedsLimit(path_s, FileSize(fs))), fs)
            ELSE IF old_str = <<>>
            THEN EditResult(Ok(Lit("OK")), [fs EXCEPT !.content = @ \o new_str])
            ELSE LET n == matches_count(fs.content, old_str)
                 IN IF n = 0 THEN EditResult(Err(Lit("old_str not found")), fs)
                    ELSE IF n = 1
                    THEN EditResult(Ok(Lit("OK")),
                                    [fs EXCEPT !.content = replacen(@, old_str, new_str)])
                    ELSE EditResult(Err(FoundTimes(n)), fs)

\* edit_exec on the target fs: what it returns and the target afterwards
edit_exec(input, fs) ==
    IF ~input.path.some THEN EditResult(Err(Lit("path is required")), fs)
    ELSE IF ~input.old_str.some THEN EditResult(Err(Lit("old_str is required")), fs)
    ELSE IF ~input.new_str.some THEN EditResult(Err(Lit("new_str is required")), fs)
    ELSE LET path_s == input.path.v
             old_str == input.old_str.v
             new_str == input.new_str.v
         IN IF SameStrings(old_str, new_str)
            THEN EditResult(Err(Lit("old_str and new_str must differ")), fs)
            ELSE IF ~fs.exists /\ old_str = <<>>
            THEN EditResult(Ok(PushStr(Lit("Created "), Lit(path_s))),
                            File(new_str, 0))
            ELSE IF ~fs.exists
            THEN EditResult(Err(PushStr(Lit(path_s),
                                        Lit(": No such file or directory (os error 2)"))),
                            fs)
            ELSE IF FileSize(fs) > MAX_READ_SIZE
            THEN EditResult(Err(ExceedsLimit(path_s, FileSize(fs))), fs)
            ELSE IF old_str = <<>>
            THEN EditResult(Ok(Lit("OK")), [fs EXCEPT !.content = @ \o new_str])
            ELSE LET n == matches_count(fs.content, old_str)
                 IN IF n = 0 THEN EditResult(Err(Lit("old_str not found")), fs)
                    ELSE IF n = 1
                    THEN EditResult(Ok(Lit("OK")),
                                    [fs EXCEPT !.content = replacen(@, old_str, new_str)])
                    ELSE EditResult(Err(FoundTimes(n)), fs)

----------------------------------------------------------------------------
(* bash (tools/mod.rs) *)

BASH_TIMEOUT == 120
MAX_BASH_OUTPUT == 102400

BLOCKED_PATTERNS ==
    << <<"r", "m", " ", "-", "r", "f", " ", "/">>,
       <<"r", "m", " ", "-", "r", "f", " ", "~">>,
       <<"r", "m", " ", "-", "r", "f", " ", ".">>,
       <<"r", "m", " ", "-", "r", "f", " ", "*">>,
       <<"m", "k", "f", "s", ".">>,
       <<"o", "f", "=", "/", "d", "e", "v", "/", "s", "d">>,
       <<"o", "f", "=", "/", "d", "e", "v", "/", "n", "v", "m", "e">>,
       <<">", " ", "/", "d", "e", "v", "/", "s", "d">>,
       <<"c", "h", "m", "o", "d", " ", "-", "r", " ", "7", "7", "7", " ", "/">>,
       <<":", "(", ")", "{", " ", ":", "|", ":", "&", " ", "}", ";", ":">> >>

UpperCase ==
    <<"A", "B", "C", "D", "E", "F", "G", "H", "I", "J", "K", "L", "M", "N", "O", "P", "Q", "R", "S", "T", "U", "V", "W", "X", "Y", "Z">>
LowerCase ==
    <<"a", "b", "c", "d", "e", "f", "g", "h", "i", "j", "k", "l", "m", "n", "o", "p", "q", "r", "s", "t", "u", "v", "w", "x", "y", "z">>

\* the command as it is matched against the patterns
to_lowercase_Identity(cs) == cs

\* str::to_lowercase
to_lowercase(cs) ==
    [i \in 1..Len(cs) |->
        IF \E k \in 1..Len(UpperCase) : UpperCase[k] = cs[i]
        THEN LowerCase[CHOOSE k \in 1..Len(UpperCase) : UpperCase[k] = cs[i]]
        ELSE cs[i]]

\* str::contains
Contains(cs, pat) == \E i \in 1..Len(cs) : StartsAt(cs, pat, i)

Matching(lower) == {k \in 1..Len(BLOCKED_PATTERNS) : Contains(lower, BLOCKED_PATTERNS[k])}

\* BLOCKED_PATTERNS.iter().find(..): the first pattern found in the command
FirstPattern(lower) ==
    BLOCKED_PATTERNS[CHOOSE k \in Matching(lower) : \A j \in Matching(lower) : k <= j]

BlockedText(pat) ==
    PushStr(PushStr(Lit("blocked: command matches dangerous pattern '"), Str(pat)),
            Lit("'"))

\* str::is_char_boundary
RECURSIVE IsCharBoundary(_, _)
IsCharBoundary(t, i) ==
    IF i = 0 THEN TRUE
    ELSE IF t = <<>> THEN FALSE
    ELSE LET w == CharW(t[1].c)
             b == w * t[1].n
         IN IF i > b THEN IsCharBoundary(Tail(t), i - b) ELSE i % w = 0

\* (0..=max).rev().find(|&i| s.is_char_boundary(i)).unwrap_or(0)
RECURSIVE RevFind(_, _)
RevFind(t, i) == IF i = 0 \/ IsCharBoundary(t, i) THEN i ELSE RevFind(t, i - 1)

OutputMarker ==
    Str(<<"NL", ".", ".", ".", " ", "(", "o", "u", "t", "p", "u", "t", " ",
          "t", "r", "u", "n", "c", "a", "t", "e", "d", " ", "a", "t", " ",
          "1", "0", "0", "K", "B", ")">>)

truncate_with_marker(t, max) == PushStr(Truncate(t, RevFind(t, max)), OutputMarker)

IsSpace(c) == c \in {" ", "NL"}

RECURSIVE TrimStart(_)
TrimStart(t) == IF t # <<>> /\ IsSpace(t[1].c) THEN TrimStart(Tail(t)) ELSE t

RECURSIVE TrimEnd(_)
TrimEnd(t) ==
    IF t # <<>> /\ IsSpace(t[Len(t)].c) THEN TrimEnd(SubSeq(t, 1, Len(t) - 1)) ELSE t

\* str::trim
trim(t) == TrimEnd(TrimStart(t))

StderrSeparator ==
    Str(<<"NL", "-", "-", "-", " ", "s", "t", "d", "e", "r", "r", " ", "-", "-", "-", "NL">>)

\* ExitStatus: an exit code, or the signal that ended the process
Exited(code) == [signal |-> FALSE, n |-> code]
Signalled(sig) == [signal |-> TRUE, n |-> sig]

success(status) == ~status.signal /\ status.n = 0

\* Display of ExitStatus
StatusText(status) ==
    IF status.signal THEN PushStr(Lit("signal: "), Lit(ToString(status.n)))
    ELSE PushStr(Lit("exit status: "), Lit(ToString(status.n)))

\* tools/mod.rs 196-198 and 202-204
Capped(t) ==
    IF TextLen(t) > MAX_BASH_OUTPUT THEN truncate_with_marker(t, MAX_BASH_OUTPUT) ELSE t

\* a failed command is reported like a successful one
Completed_AlwaysOk(status, stdout, stderr) ==
    Ok(Capped(trim(IF stdout # <<>> /\ stderr # <<>>
                   THEN PushStr(PushStr(stdout, StderrSeparator), stderr)
                   ELSE PushStr(stdout, stderr))))

\* bash_exec once wait_timeout has returned the status (tools/mod.rs 186-205)
Completed(status, stdout, stderr) ==
    LET output == trim(IF stdout # <<>> /\ stderr # <<>>
                       THEN PushStr(PushStr(stdout, StderrSeparator), stderr)
                       ELSE PushStr(stdout, stderr))
    IN IF ~success(status)
       THEN Err(Capped(PushStr(PushStr(PushStr(Lit("Command failed ("),
                                               StatusText(status)), Lit("): ")),
                               output)))
       ELSE Ok(Capped(output))

\* the child process: not spawned, running, terminated but not yet waited
\* for, or waited for; elapsed is the time since the spawn in seconds
Child(state, status, stdout, stderr, elapsed, killed, timed_out) ==
    [state |-> state, status |-> status, stdout |-> stdout, stderr |-> stderr,
     elapsed |-> elapsed, killed |-> killed, timed_out |-> timed_out]

NoChild == Child("none", Exited(0), <<>>, <<>>, 0, FALSE, FALSE)

----------------------------------------------------------------------------
(* list_files (tools/mod.rs) *)

MAX_LIST_ENTRIES == 1000
MAX_WALK_DEPTH == 20

SKIP_DIRS == {".git", ".devenv", "node_modules", "target", ".venv", "vendor"}

\* an entry of the file system: its path from the working directory as a
\* sequence of names, whether it is a directory, and how many files it
\* stands for (n > 1: plain files name0001 .. name<n> of one directory)
Entry(path, dir, n) == [path |-> path, dir |-> dir, n |-> n]

\* the names in use, in byte order; no name is a prefix of another
NameOrder ==
    <<".devenv", ".git", ".venv", "a.rs", "d", "f", "keep.txt", "node_modules",
      "pkg", "src", "target", "vendor">>

Rank(name) == CHOOSE i \in 1..Len(NameOrder) : NameOrder[i] = name

\* the order of the relative paths as strings
RECURSIVE PathLess(_, _)
PathLess(p, q) ==
    IF p = <<>> THEN q # <<>>
    ELSE IF q = <<>> THEN FALSE
    ELSE IF p[1] = q[1] THEN PathLess(Tail(p), Tail(q))
    ELSE Rank(p[1]) < Rank(q[1])

\* files.sort()
RECURSIVE Sorted(_)
Sorted(es) ==
    IF es = {} THEN <<>>
    ELSE LET m == CHOOSE x \in es : \A y \in es \ {x} : PathLess(x.path, y.path)
         IN <<m>> \o Sorted(es \ {m})

RECURSIVE Count(_)
Count(fs) == IF fs = <<>> THEN 0 ELSE fs[1].n + Count(Tail(fs))

\* files.truncate(k)
RECURSIVE Take(_, _)
Take(fs, k) ==
    IF fs = <<>> \/ k = 0 THEN <<>>
    ELSE IF fs[1].n <= k THEN <<fs[1]>> \o Take(Tail(fs), k - fs[1].n)
    ELSE <<[fs[1] EXCEPT !.n = k]>>

IsDir(fs, path) == path = <<>> \/ Entry(path, TRUE, 1) \in fs

\* fs::read_dir(dir)
ReadDir(fs, dir) ==
    {e \in fs : Len(e.path) = Len(dir) + 1 /\ SubSeq(e.path, 1, Len(dir)) = dir}

\* path.strip_prefix(base)
StripPrefix(path, base) == SubSeq(path, Len(base) + 1, Len(path))

\* only the version-control directory is passed over
Skipped_GitOnly(name) == name = ".git"

\* tools/mod.rs 123
Skipped(name) == name \in SKIP_DIRS

\* walk: the entries pushed to files
RECURSIVE walk(_, _, _, _, _)
walk(fs, base, dir, recursive, depth) ==
    IF depth > MAX_WALK_DEPTH THEN {}
    ELSE UNION { IF e.dir
                 THEN IF Skipped(e.path[Len(e.path)]) THEN {}
                      ELSE {Entry(StripPrefix(e.path, base), TRUE, 1)}
                             \cup (IF recursive
                                   THEN walk(fs, base, e.path, recursive, depth + 1)
                                   ELSE {})
                 ELSE {Entry(StripPrefix(e.path, base), FALSE, e.n)}
               : e \in ReadDir(fs, dir) }

Listing(files, total) == [files |-> files, total |-> total]

\* list_exec on the file system fs; the note of the total is present when
\* total exceeds the number of files shown
list_exec(input, fs) ==
    LET dir == IF input.path.some THEN input.path.v ELSE <<>>
        recursive == IF input.recursive.some THEN input.recursive.v ELSE FALSE
    IN IF ~IsDir(fs, dir)
       THEN Err(Listing(<<>>, 0))
       ELSE LET files == Sorted(walk(fs, dir, dir, recursive, 0))
                total == Count(files)
            IN IF total > MAX_LIST_ENTRIES
               THEN Ok(Listing(Take(files, MAX_LIST_ENTRIES), total))
               ELSE Ok(Listing(files, total))

----------------------------------------------------------------------------
(* Stream decoder (api.rs) *)

MaxBlocks == 2
MaxTextChars == 1
MaxJsonUnits == 2
MaxStopDeltas == 2

\* a field the payload does not carry: Value::as_str / as_u64 give None
Absent == "absent"
NoIndex == 0 - 1

\* the fields of a data payload that process_line reads; indexing a missing
\* object gives Null, whose fields are missing in turn
Payload(index, content_block, delta, error) ==
    [index |-> index, content_block |-> content_block, delta |-> delta,
     error |-> error]
Descriptor(type, id, name) == [type |-> type, id |-> id, name |-> name]
Delta(type, text, partial_json, stop) ==
    [type |-> type, text |-> text, partial_json |-> partial_json,
     stop_reason |-> stop]
ErrorBody(message) == [message |-> message]

NoDescriptor == Descriptor(Absent, Absent, Absent)
\* as_str().unwrap_or_default(): a missing text is the empty text
NoDelta == Delta(Absent, <<>>, <<>>, Absent)
NoErrorBody == ErrorBody(Absent)
EmptyPayload == Payload(NoIndex, NoDescriptor, NoDelta, NoErrorBody)

BlankLine == [kind |-> "blank"]
OtherLine == [kind |-> "other"]
EventLine(name) == [kind |-> "event", name |-> name]
DataLine(json) == [kind |-> "data", ok |-> TRUE, json |-> json]
MalformedLine == [kind |-> "data", ok |-> FALSE]

\* serde_json::from_str on the accumulated fragment text; the fragment
\* alphabet is "{", "}", "null" and "1"
ParseJson(f) ==
    IF f = Lit("null") THEN Ok(NullValue)
    ELSE IF f = Str(<<"{", "}">>) THEN Ok(ObjectValue(<<>>))
    ELSE IF Len(f) = 1 /\ f[1].c = "1" THEN Ok(NumberValue((10 ^ f[1].n - 1) \div 9))
    ELSE Err("JSON")

ParserState ==
    [event |-> event, blocks |-> blocks, fragments |-> fragments,
     stop_reason |-> stop_reason, message_complete |-> message_complete]

JsonError == [kind |-> "Json", msg |-> <<>>]
StreamParse(msg) == [kind |-> "StreamParse", msg |-> msg]

Continue(ps) == [ok |-> TRUE, ps |-> ps]
Abort(e) == [ok |-> FALSE, error |-> e]

\* Option<&str>::filter(|s| !s.is_empty())
NonEmpty(x) == x # Absent /\ x # ""

\* Vec::get(idx) is Some
InRange(idx, v) == idx + 1 <= Len(v)

\* a tool_use without id or name pushes nothing
on_content_block_start_NoPlaceholder(ps, p) ==
    LET b == p.content_block
    IN IF b.type = "tool_use" /\ NonEmpty(b.id) /\ NonEmpty(b.name)
       THEN [ps EXCEPT !.blocks = Append(@, ToolUse(b.id, b.name, NullValue)),
                       !.fragments = Append(@, <<>>)]
       ELSE IF b.type = "tool_use" THEN ps
       ELSE [ps EXCEPT !.blocks = Append(@, Text(<<>>)),
                       !.fragments = Append(@, <<>>)]

\* api.rs 88-106
on_content_block_start(ps, p) ==
    LET b == p.content_block
        block == IF b.type = "tool_use" /\ NonEmpty(b.id) /\ NonEmpty(b.name)
                 THEN ToolUse(b.id, b.name, NullValue)
                 ELSE Text(<<>>)
    IN [ps EXCEPT !.blocks = Append(@, block), !.fragments = Append(@, <<>>)]

\* appended to the newest block, whatever the index says
on_content_block_delta_Newest(ps, p) ==
    IF p.index = NoIndex \/ ps.blocks = <<>> THEN ps
    ELSE LET n == Len(ps.blocks)
             d == p.delta
         IN IF d.type = "text_delta"
            THEN IF ps.blocks[n].type = "text"
                 THEN [ps EXCEPT !.blocks[n].text = PushStr(@, d.text)]
                 ELSE ps
            ELSE IF d.type = "input_json_delta"
            THEN [ps EXCEPT !.fragments[n] = PushStr(@, d.partial_json)]
            ELSE ps

on_content_block_delta(ps, p) ==
    IF p.index = NoIndex THEN ps
    ELSE LET idx == p.index
             d == p.delta
         IN IF d.type = "text_delta"
            THEN IF InRange(idx, ps.blocks) /\ ps.blocks[idx + 1].type = "text"
                 THEN [ps EXCEPT !.blocks[idx + 1].text = PushStr(@, d.text)]
                 ELSE ps
            ELSE IF d.type = "input_json_delta"
            THEN IF InRange(idx, ps.fragments)
                 THEN [ps EXCEPT !.fragments[idx + 1] = PushStr(@, d.partial_json)]
                 ELSE ps
            ELSE ps

\* a failed parse fails the whole line
on_content_block_stop_Strict(ps, p) ==
    IF p.index = NoIndex THEN Continue(ps)
    ELSE LET idx == p.index
         IN IF InRange(idx, ps.blocks) /\ ps.blocks[idx + 1].type = "tool_use"
               /\ InRange(idx, ps.fragments) /\ ps.fragments[idx + 1] # <<>>
            THEN LET r == ParseJson(ps.fragments[idx + 1])
                 IN IF r.ok THEN Continue([ps EXCEPT !.blocks[idx + 1].input = r.s])
                    ELSE Abort(JsonError)
            ELSE Continue(ps)

on_content_block_stop(ps, p) ==
    IF p.index = NoIndex THEN Continue(ps)
    ELSE LET idx == p.index
         IN IF InRange(idx, ps.blocks) /\ ps.blocks[idx + 1].type = "tool_use"
               /\ InRange(idx, ps.fragments) /\ ps.fragments[idx + 1] # <<>>
            THEN LET r == ParseJson(ps.fragments[idx + 1])
                 IN Continue([ps EXCEPT !.blocks[idx + 1].input =
                                  IF r.ok THEN r.s ELSE NullValue])
            ELSE Continue(ps)

\* the first recorded stop reason is kept
on_message_delta_KeepFirst(ps, p) ==
    LET sr == p.delta.stop_reason
    IN IF ps.stop_reason # None THEN ps
       ELSE IF sr = "end_turn" THEN [ps EXCEPT !.stop_reason = "EndTurn"]
       ELSE IF sr = "tool_use" THEN [ps EXCEPT !.stop_reason = "ToolUse"]
       ELSE IF sr = "max_tokens" THEN [ps EXCEPT !.stop_reason = "MaxTokens"]
       ELSE ps

on_message_delta(ps, p) ==
    LET sr == p.delta.stop_reason
    IN IF sr = "end_turn" THEN [ps EXCEPT !.stop_reason = "EndTurn"]
       ELSE IF sr = "tool_use" THEN [ps EXCEPT !.stop_reason = "ToolUse"]
       ELSE IF sr = "max_tokens" THEN [ps EXCEPT !.stop_reason = "MaxTokens"]
       ELSE ps

\* the message of the payload is not read
on_error_Unknown(p) ==
    Abort(StreamParse(<<"stream error: ", "unknown stream error">>))

\* api.rs 156-161
on_error(p) ==
    Abort(StreamParse(<<"stream error: ",
                        IF p.error.message = Absent THEN "unknown stream error"
                        ELSE p.error.message>>))

\* the payload is parsed only under an event name that reads it
process_line_ParsesWhenRead(ps, line) ==
    IF line.kind = "blank" THEN Continue(ps)
    ELSE IF line.kind = "event" THEN Continue([ps EXCEPT !.event = line.name])
    ELSE IF line.kind # "data" THEN Continue(ps)
    ELSE IF ps.event \notin {"content_block_start", "content_block_delta",
                             "content_block_stop", "message_delta", "error"}
    THEN IF ps.event = "message_stop"
         THEN Continue([ps EXCEPT !.message_complete = TRUE])
         ELSE Continue(ps)
    ELSE IF ~line.ok THEN Abort(JsonError)
    ELSE LET p == line.json
         IN CASE ps.event = "content_block_start" ->
                    Continue(on_content_block_start(ps, p))
              [] ps.event = "content_block_delta" ->
                    Continue(on_content_block_delta(ps, p))
              [] ps.event = "content_block_stop" -> on_content_block_stop(ps, p)
              [] ps.event = "message_delta" -> Continue(on_message_delta(ps, p))
              [] ps.event = "error" -> on_error(p)

\* SseParser::process_line
process_line(ps, line) ==
    IF line.kind = "blank" THEN Continue(ps)
    ELSE IF line.kind = "event" THEN Continue([ps EXCEPT !.event = line.name])
    ELSE IF line.kind # "data" THEN Continue(ps)
    ELSE IF ~line.ok THEN Abort(JsonError)
    ELSE LET p == line.json
         IN CASE ps.event = "content_block_start" ->
                    Continue(on_content_block_start(ps, p))
              [] ps.event = "content_block_delta" ->
                    Continue(on_content_block_delta(ps, p))
              [] ps.event = "content_block_stop" -> on_content_block_stop(ps, p)
              [] ps.event = "message_delta" -> Continue(on_message_delta(ps, p))
              [] ps.event = "message_stop" ->
                    Continue([ps EXCEPT !.message_complete = TRUE])
              [] ps.event = "error" -> on_error(p)
              [] OTHER -> Continue(ps)

NotPlaceholder(b) == ~(b.type = "text" /\ b.text = <<>>)

NoStopReason == StreamParse(<<"stream ended without stop_reason">>)

\* message_stop is not consulted
finish_NoFallback(ps) ==
    IF ps.stop_reason # None
    THEN [ok |-> TRUE, blocks |-> SelectSeq(ps.blocks, NotPlaceholder),
          stop |-> ps.stop_reason]
    ELSE Abort(NoStopReason)

\* SseParser::finish
finish(ps) ==
    LET kept == SelectSeq(ps.blocks, NotPlaceholder)
    IN IF ps.stop_reason # None
       THEN [ok |-> TRUE, blocks |-> kept, stop |-> ps.stop_reason]
       ELSE IF ps.message_complete
       THEN [ok |-> TRUE, blocks |-> kept, stop |-> "EndTurn"]
       ELSE Abort(NoStopReason)

\* the outcome of send_message: nothing yet, or what it returned
Pending == [done |-> FALSE]
Returned(by, r) == [done |-> TRUE, by |-> by, r |-> r]

----------------------------------------------------------------------------
(* Agent loop (main.rs) *)

MaxTurns == 2
VarietyIters == 1
DeepTurnLimit == 1
HugeLen == 800000

SmallText == Str(<<"o", "k">>)
HugeText == <<Run("x", HugeLen)>>
CorruptText == Lit("tool input was corrupt (JSON parse failed)")
LsInput == ObjectValue([k \in {"command"} |-> StringValue("ls")])

UserInputs == {Lit("hi")}

\* what the named tool function can return on the given input
ToolOutcomes == {Ok(SmallText), Ok(HugeText), Err(Lit("Command failed"))}
CanonicalOutcome == Ok(SmallText)

CanonicalResponse ==
    [blocks |-> <<ToolUse("t1", "bash", LsInput)>>, stop |-> "ToolUse"]

\* results of send_message: the block lists finish can return, with a stop reason
ContinueResponses ==
    { CanonicalResponse,
      [blocks |-> <<Text(SmallText), ToolUse("t1", "nonexistent", LsInput),
                    ToolUse("t2", "read_file", NullValue)>>,
       stop |-> "ToolUse"],
      [blocks |-> <<ToolUse("t0", "list_files", LsInput),
                    ToolUse("t1", "read_file", NullValue),
                    ToolUse("t2", "list_files", NullValue),
                    ToolUse("t3", "bash", NullValue),
                    ToolUse("t4", "edit_file", NullValue),
                    ToolUse("t5", "code_search", NullValue),
                    ToolUse("t6", "bash", LsInput)>>,
       stop |-> "ToolUse"] }
ExitResponses ==
    { [blocks |-> <<Text(SmallText)>>, stop |-> "EndTurn"],
      [blocks |-> <<>>, stop |-> "EndTurn"],
      [blocks |-> <<Text(SmallText)>>, stop |-> "ToolUse"],
      [blocks |-> <<ToolUse("t1", "bash", LsInput),
                    ToolUse("t2", "bash", NullValue)>>, stop |-> "MaxTokens"],
      [blocks |-> <<ToolUse("t2", "bash", NullValue)>>, stop |-> "MaxTokens"],
      [blocks |-> <<Text(SmallText), ToolUse("t2", "bash", NullValue),
                    ToolUse("t1", "bash", LsInput), Text(HugeText)>>,
       stop |-> "MaxTokens"] }

Varied == tool_iterations < VarietyIters
Deep == tool_iterations > VarietyIters

Responses ==
    IF Varied THEN ContinueResponses \cup ExitResponses
    ELSE IF Deep THEN {CanonicalResponse}
    ELSE ExitResponses
           \cup (IF turns <= DeepTurnLimit THEN {CanonicalResponse} ELSE {})

Outcomes == IF Varied THEN ToolOutcomes ELSE {CanonicalOutcome}

Last(s) == s[Len(s)]

\* every ToolUse block is dropped, whatever its input
NotNullToolUse_NoToolUse(b) == b.type # "tool_use"

\* main.rs 255-257: the predicate of retain
NotNullToolUse(b) == ~(b.type = "tool_use" /\ is_null(b.input))

AgentInit ==
    /\ conversation = <<>>
    /\ pc = "idle"
    /\ tool_iterations = 0
    /\ tool_results = <<>>
    /\ cursor = 0
    /\ inflight = {}
    /\ started = <<>>
    /\ turns = 0
    /\ requests = 0
    /\ batches = 0
    /\ outcome = "none"

\* main.rs 205-209: a line of input starts a turn
UserTurn(input) ==
    /\ pc = "idle"
    /\ turns < MaxTurns
    /\ conversation' = Append(conversation, Message("user", <<Text(input)>>))
    /\ tool_iterations' = 0
    /\ pc' = "loop"
    /\ turns' = turns + 1
    /\ requests' = 0
    /\ batches' = 0
    /\ UNCHANGED <<tool_results, cursor, inflight, started, outcome>>

\* main.rs 211-218
IterationLimit ==
    /\ pc = "loop"
    /\ tool_iterations >= MAX_TOOL_ITERATIONS
    /\ conversation' = recover_conversation(conversation)
    /\ pc' = "idle"
    /\ outcome' = "ceiling"
    /\ UNCHANGED <<tool_iterations, tool_results, cursor, inflight, started, turns,
                   requests, batches>>

\* the request leaves although the ceiling was reached
SendRequest_NoCeiling ==
    /\ pc = "loop"
    /\ conversation' = trim_conversation(conversation, MAX_CONVERSATION_BYTES)
    /\ pc' = "sending"
    /\ requests' = requests + 1
    /\ UNCHANGED <<tool_iterations, tool_results, cursor, inflight, started, turns,
                   batches, outcome>>

\* main.rs 223-232: trim, then the request leaves
SendRequest ==
    /\ pc = "loop"
    /\ tool_iterations < MAX_TOOL_ITERATIONS
    /\ conversation' = trim_conversation(conversation, MAX_CONVERSATION_BYTES)
    /\ pc' = "sending"
    /\ requests' = requests + 1
    /\ UNCHANGED <<tool_iterations, tool_results, cursor, inflight, started, turns,
                   batches, outcome>>

\* main.rs 235-240: send_message returned Err
SendError ==
    /\ pc = "sending"
    /\ ~Deep
    /\ conversation' = recover_conversation(conversation)
    /\ pc' = "idle"
    /\ outcome' = "error"
    /\ UNCHANGED <<tool_iterations, tool_results, cursor, inflight, started, turns,
                   requests, batches>>

\* main.rs 246-262: send_message returned Ok((response, stop_reason))
ReceiveResponse(r) ==
    /\ pc = "sending"
    /\ IF r.stop # "ToolUse"
       THEN /\ conversation' =
                 Append(conversation,
                        Message("assistant",
                                IF r.stop = "MaxTokens"
                                THEN SelectSeq(r.blocks, NotNullToolUse)
                                ELSE r.blocks))
            /\ pc' = "idle"
            /\ outcome' = IF r.stop = "MaxTokens" THEN "max_tokens" ELSE "end_turn"
            /\ UNCHANGED <<tool_results, cursor, started>>
       ELSE /\ conversation' = Append(conversation, Message("assistant", r.blocks))
            /\ pc' = "dispatch"
            /\ tool_results' = <<>>
            /\ cursor' = 1
            /\ started' = <<>>
            /\ UNCHANGED outcome
    /\ UNCHANGED <<tool_iterations, inflight, turns, requests, batches>>

\* a null input is passed on to the tool like any other
ShortCircuits_Never(block) == FALSE

\* main.rs 265: the input is the null sentinel
ShortCircuits(block) == is_null(block.input)

\* the block is a tool call that reaches a tool function ($func of the registry)
RunsTool(block) ==
    block.type = "tool_use" /\ ~ShortCircuits(block) /\ block.name \in ToolNames

\* a corrupt tool call gets no result
DispatchBlock_DropCorrupt ==
    /\ pc = "dispatch"
    /\ cursor <= Len(Last(conversation).content)
    /\ LET block == Last(conversation).content[cursor]
       IN /\ ~RunsTool(block)
          /\ tool_results' =
               IF block.type = "tool_use" /\ ~ShortCircuits(block)
               THEN Append(tool_results,
                           dispatch_tool(block.name, block.input, block.id,
                                         CanonicalOutcome))
               ELSE tool_results
    /\ cursor' = cursor + 1
    /\ UNCHANGED <<conversation, pc, tool_iterations, inflight, started, turns,
                   requests, batches, outcome>>

\* main.rs 263-303: one pass of the for loop that runs no tool function: the
\* block is no ToolUse, its input is null, or its name is not registered
DispatchBlock ==
    /\ pc = "dispatch"
    /\ cursor <= Len(Last(conversation).content)
    /\ LET block == Last(conversation).content[cursor]
       IN /\ ~RunsTool(block)
          /\ tool_results' =
               IF block.type = "tool_use"
               THEN IF ShortCircuits(block)
                    THEN Append(tool_results,
                                ToolResult(block.id, CorruptText, SomeTrue))
                    ELSE Append(tool_results,
                                dispatch_tool(block.name, block.input, block.id,
                                              CanonicalOutcome))
               ELSE tool_results
    /\ cursor' = cursor + 1
    /\ UNCHANGED <<conversation, pc, tool_iterations, inflight, started, turns,
                   requests, batches, outcome>>

\* main.rs 281, tools/mod.rs 31: dispatch_tool enters the tool function
ToolCall ==
    /\ pc = "dispatch"
    /\ cursor <= Len(Last(conversation).content)
    /\ LET block == Last(conversation).content[cursor]
       IN /\ RunsTool(block)
          /\ inflight' = inflight \cup {block.id}
          /\ started' = Append(started, block.id)
    /\ pc' = "tool"
    /\ UNCHANGED <<conversation, tool_iterations, tool_results, cursor, turns,
                   requests, batches, outcome>>

\* tools/mod.rs 31-34, main.rs 281-301: the tool function returned out
ToolReturn(out) ==
    /\ pc = "tool"
    /\ LET block == Last(conversation).content[cursor]
       IN /\ tool_results' =
               Append(tool_results,
                      dispatch_tool(block.name, block.input, block.id, out))
          /\ inflight' = inflight \ {block.id}
    /\ cursor' = cursor + 1
    /\ pc' = "dispatch"
    /\ UNCHANGED <<conversation, tool_iterations, started, turns, requests, batches,
                   outcome>>

\* main.rs 304-315
\* the turn ends once the batch has been pushed
BatchDone_Stops ==
    /\ pc = "dispatch"
    /\ cursor > Len(Last(conversation).content)
    /\ IF tool_results = <<>>
       THEN /\ pc' = "idle"
            /\ outcome' = "no_tools"
            /\ UNCHANGED <<conversation, tool_iterations, batches>>
       ELSE /\ tool_iterations' = tool_iterations + 1
            /\ conversation' = Append(conversation, Message("user", tool_results))
            /\ pc' = "idle"
            /\ batches' = batches + 1
            /\ UNCHANGED outcome
    /\ UNCHANGED <<tool_results, cursor, inflight, started, turns, requests>>

\* main.rs 304-315: the end of the dispatch loop
BatchDone ==
    /\ pc = "dispatch"
    /\ cursor > Len(Last(conversation).content)
    /\ IF tool_results = <<>>
       THEN /\ pc' = "idle"
            /\ outcome' = "no_tools"
            /\ UNCHANGED <<conversation, tool_iterations, batches>>
       ELSE /\ tool_iterations' = tool_iterations + 1
            /\ conversation' = Append(conversation, Message("user", tool_results))
            /\ pc' = "loop"
            /\ batches' = batches + 1
            /\ UNCHANGED outcome
    /\ UNCHANGED <<tool_results, cursor, inflight, started, turns, requests>>

\* what the endpoint has put on the stream, block by block; wf says that so
\* far every block got only deltas of its own kind between its start and its
\* stop and was stopped at most once; stop_at is the index carried by the
\* content_block_stop payload of the last step, delivered the stop reasons
\* the message_delta payloads carried, ended that a message_stop went out,
\* starts the number of payloads that went out under content_block_start
NoFeed ==
    [wf |-> TRUE, sent |-> <<>>, stop_at |-> NoIndex, delivered |-> <<>>,
     ended |-> FALSE, starts |-> 0]

ParserIdle ==
    /\ event = ""
    /\ blocks = <<>>
    /\ fragments = <<>>
    /\ stop_reason = None
    /\ message_complete = FALSE
    /\ decoded = Pending
    /\ feed = NoFeed

FnIdle ==
    /\ arg = "none"
    /\ ret = "none"
    /\ child = NoChild
    /\ fpc = "idle"

Init == AgentInit /\ ParserIdle /\ FnIdle

Next ==
    \/ \E input \in UserInputs :
          UserTurn(input) /\ UNCHANGED parserVars /\ UNCHANGED fnVars
    \/ IterationLimit /\ UNCHANGED parserVars /\ UNCHANGED fnVars
    \/ SendRequest /\ UNCHANGED parserVars /\ UNCHANGED fnVars
    \/ SendError /\ UNCHANGED parserVars /\ UNCHANGED fnVars
    \/ \E r \in Responses :
          ReceiveResponse(r) /\ UNCHANGED parserVars /\ UNCHANGED fnVars
    \/ DispatchBlock /\ UNCHANGED parserVars /\ UNCHANGED fnVars
    \/ ToolCall /\ UNCHANGED parserVars /\ UNCHANGED fnVars
    \/ \E out \in Outcomes :
          ToolReturn(out) /\ UNCHANGED parserVars /\ UNCHANGED fnVars
    \/ BatchDone /\ UNCHANGED parserVars /\ UNCHANGED fnVars

Spec == Init /\ [][Next]_vars

\* main.rs 262-316 is sequential code: once a response asked for tools, the
\* dispatch loop runs on to its end as long as every tool function returns
\* (bash_exec is bounded by BASH_TIMEOUT, the others work on a file or a
\* directory tree of finite size)
Progress ==
    /\ \/ DispatchBlock
       \/ ToolCall
       \/ \E out \in Outcomes : ToolReturn(out)
       \/ BatchDone
    /\ UNCHANGED parserVars
    /\ UNCHANGED fnVars

SpecFair == Spec /\ WF_vars(Progress)

----------------------------------------------------------------------------
(* The decoder fed line by line (send_message, api.rs 223-236) *)

Broken(f) == [f EXCEPT !.wf = FALSE, !.sent = <<>>]

Started(i, f) == i # NoIndex /\ i + 1 <= Len(f.sent)

ObserveDelta(f, p) ==
    IF ~f.wf \/ ~Started(p.index, f) THEN Broken(f)
    ELSE LET b == f.sent[p.index + 1]
             d == p.delta
         IN IF b.stopped THEN Broken(f)
            ELSE IF d.type = "text_delta"
            THEN IF b.desc.type = "text"
                 THEN [f EXCEPT !.sent[p.index + 1].text = PushStr(@, d.text)]
                 ELSE Broken(f)
            ELSE IF d.type = "input_json_delta"
            THEN IF b.desc.type = "tool_use"
                 THEN [f EXCEPT !.sent[p.index + 1].json = PushStr(@, d.partial_json)]
                 ELSE Broken(f)
            ELSE f

ObserveStop(f, p) ==
    IF f.wf /\ Started(p.index, f) /\ ~f.sent[p.index + 1].stopped
    THEN [f EXCEPT !.sent[p.index + 1].stopped = TRUE]
    ELSE Broken(f)

\* the feed after the line has gone out under the event name ev
Observe(f, ev, line) ==
    IF line.kind # "data" \/ ~line.ok
    THEN [f EXCEPT !.stop_at = NoIndex]
    ELSE LET p == line.json
         IN CASE ev = "content_block_start" ->
                    [(IF f.wf
                      THEN [f EXCEPT !.sent =
                               Append(@, [desc |-> p.content_block, text |-> <<>>,
                                          json |-> <<>>, stopped |-> FALSE])]
                      ELSE f) EXCEPT !.stop_at = NoIndex, !.starts = @ + 1]
              [] ev = "content_block_delta" ->
                    [ObserveDelta(f, p) EXCEPT !.stop_at = NoIndex]
              [] ev = "content_block_stop" ->
                    [ObserveStop(f, p) EXCEPT !.stop_at = p.index]
              [] ev = "message_delta" ->
                    [f EXCEPT !.stop_at = NoIndex,
                              !.delivered = Append(@, p.delta.stop_reason)]
              [] ev = "message_stop" -> [f EXCEPT !.stop_at = NoIndex, !.ended = TRUE]
              [] OTHER -> [f EXCEPT !.stop_at = NoIndex]

RECURSIVE Units(_)
Units(t) == IF t = <<>> THEN 0 ELSE t[1].n + Units(Tail(t))

RECURSIVE TotalText(_)
TotalText(bs) ==
    IF bs = <<>> THEN 0
    ELSE (IF bs[1].type = "text" THEN Units(bs[1].text) ELSE 0) + TotalText(Tail(bs))

RECURSIVE TotalUnits(_)
TotalUnits(fs) == IF fs = <<>> THEN 0 ELSE Units(fs[1]) + TotalUnits(Tail(fs))

Within(ps, f) ==
    /\ Len(ps.blocks) <= MaxBlocks
    /\ TotalText(ps.blocks) <= MaxTextChars
    /\ TotalUnits(ps.fragments) <= MaxJsonUnits
    /\ Len(f.delivered) <= MaxStopDeltas

EventNames ==
    {"content_block_start", "content_block_delta", "content_block_stop",
     "message_delta", "message_stop", "error", "ping"}

Descriptors ==
    { Descriptor("text", Absent, Absent),
      Descriptor("tool_use", "t1", "bash"),
      Descriptor("tool_use", "", "bash") }

Indexes == NoIndex..(MaxBlocks - 1)

BlockStart(d) == Payload(NoIndex, d, NoDelta, NoErrorBody)
BlockDelta(i, d) == Payload(i, NoDescriptor, d, NoErrorBody)
TextDelta(i, t) == BlockDelta(i, Delta("text_delta", t, <<>>, Absent))
JsonDelta(i, j) == BlockDelta(i, Delta("input_json_delta", <<>>, j, Absent))
StopReasonDelta(sr) == BlockDelta(NoIndex, Delta(Absent, <<>>, <<>>, sr))
ErrorPayload(m) == Payload(NoIndex, NoDescriptor, NoDelta, ErrorBody(m))

BlockPayloads ==
    { BlockStart(d) : d \in Descriptors }
      \cup { TextDelta(i, t) : i \in Indexes, t \in {Lit("a"), Lit("b")} }
      \cup { JsonDelta(i, j) : i \in Indexes, j \in {Lit("{"), Lit("}")} }
      \cup { BlockDelta(i, NoDelta) : i \in Indexes }

StopPayloads ==
    { StopReasonDelta(sr) :
         sr \in {"end_turn", "tool_use", "max_tokens", "pause_turn", Absent} }

\* the lines of a stream of content blocks that ends with message_stop
BlockLines ==
    {BlankLine, OtherLine}
      \cup { EventLine(n) : n \in {"content_block_start", "content_block_delta",
                                   "content_block_stop", "message_stop"} }
      \cup { DataLine(p) : p \in BlockPayloads }

\* the lines that end a stream, around one text block
StopLines ==
    {BlankLine, OtherLine, MalformedLine}
      \cup { EventLine(n) : n \in EventNames }
      \cup { DataLine(p) : p \in StopPayloads
                                   \cup {ErrorPayload("Overloaded"), EmptyPayload,
                                         BlockStart(Descriptor("text", Absent, Absent)),
                                         TextDelta(0, Lit("a"))} }

\* api.rs 227-235: one line taken from the buffer and processed
ProcessLine(line) ==
    /\ ~decoded.done
    /\ LET r == process_line(ParserState, line)
           f == Observe(feed, event, line)
       IN IF r.ok
          THEN /\ Within(r.ps, f)
               /\ event' = r.ps.event
               /\ blocks' = r.ps.blocks
               /\ fragments' = r.ps.fragments
               /\ stop_reason' = r.ps.stop_reason
               /\ message_complete' = r.ps.message_complete
               /\ feed' = f
               /\ UNCHANGED decoded
          ELSE /\ decoded' = Returned("process_line", r)
               /\ feed' = f
               /\ UNCHANGED <<event, blocks, fragments, stop_reason,
                              message_complete>>
    /\ UNCHANGED <<agentVars, fnVars>>

\* api.rs 236: the stream has ended
Finish ==
    /\ ~decoded.done
    /\ decoded' = Returned("finish", finish(ParserState))
    /\ feed' = [feed EXCEPT !.stop_at = NoIndex]
    /\ UNCHANGED <<event, blocks, fragments, stop_reason, message_complete>>
    /\ UNCHANGED <<agentVars, fnVars>>

NextBlocks == (\E line \in BlockLines : ProcessLine(line)) \/ Finish
SpecBlocks == Init /\ [][NextBlocks]_vars

NextStop == (\E line \in StopLines : ProcessLine(line)) \/ Finish
SpecStop == Init /\ [][NextStop]_vars

\* block descriptors with the id or the name missing or empty, and a whole one
StartDescriptors ==
    { Descriptor("tool_use", "t1", "bash"),
      Descriptor("tool_use", "", "bash"),
      Descriptor("tool_use", Absent, "bash"),
      Descriptor("tool_use", "t2", ""),
      Descriptor("tool_use", "t2", Absent),
      Descriptor("tool_use", Absent, Absent) }

\* the lines of a stream of tool_use blocks
StartLines ==
    { EventLine(n) : n \in {"content_block_start", "content_block_delta",
                            "message_stop"} }
      \cup { DataLine(BlockStart(d)) : d \in StartDescriptors }
      \cup { DataLine(TextDelta(i, Lit("a"))) : i \in Indexes }
      \cup { DataLine(JsonDelta(i, Lit("{"))) : i \in Indexes }

NextStart == (\E line \in StartLines : ProcessLine(line)) \/ Finish
SpecStart == Init /\ [][NextStart]_vars

----------------------------------------------------------------------------
(* One request of the agent loop with its stream decoded line by line *)

\* the lines of a stream of text blocks: every kind of event name, payloads
\* that accumulate text, fragment text and a stop reason, the error event
\* with and without a message, and a data line that is no JSON
TurnLines ==
    {BlankLine, MalformedLine}
      \cup { EventLine(n) : n \in {"content_block_start", "content_block_delta",
                                   "message_delta", "error", "ping"} }
      \cup { DataLine(p) : p \in {BlockStart(Descriptor("text", Absent, Absent)),
                                   TextDelta(0, Lit("a")),
                                   JsonDelta(0, Lit("{")),
                                   StopReasonDelta("tool_use"),
                                   StopReasonDelta("max_tokens"),
                                   ErrorPayload("Overloaded"),
                                   EmptyPayload} }

\* main.rs 223-232, api.rs 194-223: the request leaves and send_message
\* starts on the response with a fresh parser
OpenStream ==
    /\ SendRequest
    /\ event' = ""
    /\ blocks' = <<>>
    /\ fragments' = <<>>
    /\ stop_reason' = None
    /\ message_complete' = FALSE
    /\ decoded' = Pending
    /\ feed' = NoFeed
    /\ UNCHANGED fnVars

StreamLine(line) == pc = "sending" /\ ProcessLine(line)

StreamEnd == pc = "sending" /\ Finish

\* main.rs 233-249: send_message returned Ok
ReturnOk ==
    /\ decoded.done
    /\ decoded.r.ok
    /\ ReceiveResponse([blocks |-> decoded.r.blocks, stop |-> decoded.r.stop])
    /\ UNCHANGED parserVars
    /\ UNCHANGED fnVars

\* main.rs 235-240: send_message returned Err
ReturnErr ==
    /\ decoded.done
    /\ ~decoded.r.ok
    /\ SendError
    /\ UNCHANGED parserVars
    /\ UNCHANGED fnVars

NextTurn ==
    \/ \E input \in UserInputs :
          UserTurn(input) /\ UNCHANGED parserVars /\ UNCHANGED fnVars
    \/ OpenStream
    \/ \E line \in TurnLines : StreamLine(line)
    \/ StreamEnd
    \/ ReturnOk
    \/ ReturnErr
    \/ DispatchBlock /\ UNCHANGED parserVars /\ UNCHANGED fnVars
    \/ BatchDone /\ UNCHANGED parserVars /\ UNCHANGED fnVars

SpecTurn == Init /\ [][NextTurn]_vars

----------------------------------------------------------------------------
(* The response stream cut into chunks (send_message, api.rs 221-236) *)

MaxStreamLen == 4

\* the bytes of a stream: a letter, a blank, a line feed, and the lead byte
\* and the continuation byte of one two-byte character
StreamBytes == {"a", "SP", "NL", "L", "C"}

\* String::from_utf8_lossy on one chunk: a lead byte followed by its
\* continuation byte is the two-byte character, a lead byte the chunk ends
\* after and a continuation byte without a lead byte are each replaced by
\* U+FFFD
RECURSIVE from_utf8_lossy(_)
from_utf8_lossy(bytes) ==
    IF bytes = <<>> THEN <<>>
    ELSE IF bytes[1] = "L"
    THEN IF Len(bytes) >= 2 /\ bytes[2] = "C"
         THEN <<"e2">> \o from_utf8_lossy(SubSeq(bytes, 3, Len(bytes)))
         ELSE <<"FFFD">> \o from_utf8_lossy(Tail(bytes))
    ELSE IF bytes[1] = "C" THEN <<"FFFD">> \o from_utf8_lossy(Tail(bytes))
    ELSE <<bytes[1]>> \o from_utf8_lossy(Tail(bytes))

\* str::find('\n'): the position of the first line feed, 0 for None
find_newline(buf) ==
    IF \E i \in 1..Len(buf) : buf[i] = "NL"
    THEN CHOOSE i \in 1..Len(buf) :
            buf[i] = "NL" /\ \A j \in 1..(i - 1) : buf[j] # "NL"
    ELSE 0

WhiteSpace(c) == c \in {"SP", "NL"}

RECURSIVE trim_end(_)
trim_end(t) ==
    IF t # <<>> /\ WhiteSpace(t[Len(t)]) THEN trim_end(SubSeq(t, 1, Len(t) - 1))
    ELSE t

RECURSIVE trim_start(_)
trim_start(t) ==
    IF t # <<>> /\ WhiteSpace(t[1]) THEN trim_start(Tail(t)) ELSE t

trim_both(t) == trim_end(trim_start(t))

\* api.rs 227-231: the lines taken off the front of the buffer
RECURSIVE DrainLines(_, _)
DrainLines(buf, lines) ==
    LET nl == find_newline(buf)
    IN IF nl = 0 THEN [buf |-> buf, lines |-> lines]
       ELSE DrainLines(SubSeq(buf, nl + 1, Len(buf)),
                       Append(lines, trim_end(SubSeq(buf, 1, nl - 1))))

\* api.rs 226-231: one chunk arrives
OnChunk(st, chunk) ==
    DrainLines(st.buf \o from_utf8_lossy(chunk), st.lines)

\* api.rs 233-235: the stream has ended
OnEnd(st) ==
    IF trim_both(st.buf) # <<>>
    THEN [buf |-> st.buf, lines |-> Append(st.lines, trim_both(st.buf))]
    ELSE st

\* well-formed UTF-8: every lead byte is followed by a continuation byte and
\* every continuation byte follows a lead byte
WellFormed(bytes) ==
    \A i \in 1..Len(bytes) :
        /\ bytes[i] = "L" => (i < Len(bytes) /\ bytes[i + 1] = "C")
        /\ bytes[i] = "C" => (i > 1 /\ bytes[i - 1] = "L")

Streams ==
    { b \in UNION { [1..n -> StreamBytes] : n \in 0..MaxStreamLen } : WellFormed(b) }

\* the stream cut after the positions of cuts
RECURSIVE ChunksFrom(_, _, _)
ChunksFrom(bytes, cuts, from) ==
    IF from > Len(bytes) THEN <<>>
    ELSE LET later == {c \in cuts : c >= from}
             to == IF later = {} THEN Len(bytes)
                   ELSE CHOOSE c \in later : \A d \in later : c <= d
         IN <<SubSeq(bytes, from, to)>> \o ChunksFrom(bytes, cuts, to + 1)

InitChunks ==
    /\ AgentInit
    /\ ParserIdle
    /\ child = NoChild
    /\ \E b \in Streams :
          \E cuts \in SUBSET (1..(Len(b) - 1)) :
             arg = [stream |-> b, chunks |-> ChunksFrom(b, cuts, 1)]
    /\ ret = [buf |-> <<>>, lines |-> <<>>, taken |-> 0]
    /\ fpc = "stream"

NextChunk ==
    /\ fpc = "stream"
    /\ ret.taken < Len(arg.chunks)
    /\ LET st == OnChunk(ret, arg.chunks[ret.taken + 1])
       IN ret' = [buf |-> st.buf, lines |-> st.lines, taken |-> ret.taken + 1]
    /\ UNCHANGED <<arg, fpc, child, agentVars, parserVars>>

StreamEnds ==
    /\ fpc = "stream"
    /\ ret.taken = Len(arg.chunks)
    /\ LET st == OnEnd(ret)
       IN ret' = [buf |-> st.buf, lines |-> st.lines, taken |-> ret.taken]
    /\ fpc' = "finish"
    /\ UNCHANGED <<arg, child, agentVars, parserVars>>

NextChunks == NextChunk \/ StreamEnds
SpecChunks == InitChunks /\ [][NextChunks]_vars

----------------------------------------------------------------------------
(* Conversations the functions of main.rs are applied to *)

MaxExchanges == 2

BigText == <<Run("x", 12000)>>
BigWideText == <<Run("E_ACUTE", 6000)>>
MixedText == <<Run("a", 6000), Run("EURO", 4000)>>

UserText(t) == Message("user", <<Text(t)>>)
AssistantText(t) == Message("assistant", <<Text(t)>>)

\* a user turn and everything derived from it, up to the final answer
Exchanges ==
    { <<UserText(Lit("q")), AssistantText(SmallText)>>,
      <<UserText(BigText), AssistantText(BigWideText)>>,
      <<UserText(Lit("q")),
        Message("assistant", <<ToolUse("t1", "bash", LsInput)>>),
        Message("user", <<ToolResult("t1", MixedText, None)>>),
        AssistantText(SmallText)>>,
      <<UserText(Lit("q")),
        Message("assistant", <<Text(SmallText), ToolUse("t1", "read_file", LsInput),
                               ToolUse("t2", "bash", NullValue)>>),
        Message("user", <<ToolResult("t1", HugeText, None),
                          ToolResult("t2", CorruptText, SomeTrue)>>),
        AssistantText(BigText)>> }

\* the exchange in progress when main calls trim_conversation or
\* recover_conversation: nothing, the new input, or a tool-result batch
OpenExchanges ==
    { <<>>,
      <<UserText(Lit("q"))>>,
      <<UserText(BigText),
        Message("assistant", <<ToolUse("t1", "bash", LsInput)>>),
        Message("user", <<ToolResult("t1", BigWideText, None)>>)>>,
      <<UserText(Lit("q")),
        Message("assistant", <<Text(SmallText)>>)>> }

RECURSIVE Concat(_)
Concat(ss) == IF ss = <<>> THEN <<>> ELSE ss[1] \o Concat(Tail(ss))

ClosedConversations ==
    UNION { { Concat(es) : es \in [1..n -> Exchanges] } : n \in 0..MaxExchanges }

Conversations == { c \o o : c \in ClosedConversations, o \in OpenExchanges }

Budgets(c) ==
    {0, 100, 5000, 20000, MAX_CONVERSATION_BYTES}
      \cup { ConversationBytes(Drain(c, i)) - d : i \in 1..Len(c), d \in {0, 1} }

----------------------------------------------------------------------------
(* recover_conversation and trim_conversation applied to one input *)

InitRecover ==
    /\ arg \in Conversations
    /\ ret = "none"
    /\ child = NoChild
    /\ fpc = "recover"
    /\ AgentInit
    /\ ParserIdle

CallRecover ==
    /\ fpc = "recover"
    /\ ret' = recover_conversation(arg)
    /\ fpc' = "recovered"
    /\ UNCHANGED <<arg, child, agentVars, parserVars>>

SpecRecover == InitRecover /\ [][CallRecover]_vars

InitTrim ==
    /\ arg \in UNION { { [conversation |-> c, max_bytes |-> b] : b \in Budgets(c) } :
                        c \in Conversations }
    /\ ret = "none"
    /\ child = NoChild
    /\ fpc = "trim"
    /\ AgentInit
    /\ ParserIdle

CallTrim ==
    /\ fpc = "trim"
    /\ ret' = trim_conversation(arg.conversation, arg.max_bytes)
    /\ fpc' = "trimmed"
    /\ UNCHANGED <<arg, child, agentVars, parserVars>>

SpecTrim == InitTrim /\ [][CallTrim]_vars

\* truncate_oversized_blocks applied to the same conversations and budgets
CallShorten ==
    /\ fpc = "trim"
    /\ ret' = truncate_oversized_blocks(arg.conversation, arg.max_bytes)
    /\ fpc' = "shortened"
    /\ UNCHANGED <<arg, child, agentVars, parserVars>>

SpecShorten == InitTrim /\ [][CallShorten]_vars

----------------------------------------------------------------------------
(* dispatch_tool applied to one call *)

DispatchNames == ToolNames \cup {"nonexistent", "Bash"}
DispatchInputs == {NullValue, LsInput, NumberValue(1)}
DispatchIds == {"t1", "t2"}

InitDispatch ==
    /\ arg \in [name : DispatchNames, input : DispatchInputs, id : DispatchIds,
                out : ToolOutcomes]
    /\ ret = "none"
    /\ child = NoChild
    /\ fpc = "dispatch"
    /\ AgentInit
    /\ ParserIdle

CallDispatch ==
    /\ fpc = "dispatch"
    /\ ret' = dispatch_tool(arg.name, arg.input, arg.id, arg.out)
    /\ fpc' = "dispatched"
    /\ UNCHANGED <<arg, child, agentVars, parserVars>>

SpecDispatch == InitDispatch /\ [][CallDispatch]_vars

----------------------------------------------------------------------------
(* edit_exec applied to one call *)

FileChars == {"a", "b"}

Strings(n) == UNION { [1..k -> FileChars] : k \in 0..n }

EditTargets ==
    { File(c, 0) : c \in Strings(MaxFileLen) }
      \cup { File(<<"a">>, MAX_READ_SIZE), Missing(TRUE), Missing(FALSE) }

EditInputs ==
    { [path |-> Some("d/f.txt"), old_str |-> Some(o), new_str |-> Some(n)] :
         o \in Strings(MaxStrLen), n \in Strings(MaxStrLen) }
      \cup { [path |-> NoArg, old_str |-> Some(<<"a">>), new_str |-> Some(<<"b">>)],
             [path |-> Some("d/f.txt"), old_str |-> NoArg, new_str |-> Some(<<"b">>)],
             [path |-> Some("d/f.txt"), old_str |-> Some(<<"a">>), new_str |-> NoArg] }

InitEdit ==
    /\ arg \in [input : EditInputs, fs : EditTargets]
    /\ ret = "none"
    /\ child = NoChild
    /\ fpc = "edit"
    /\ AgentInit
    /\ ParserIdle

CallEdit ==
    /\ fpc = "edit"
    /\ ret' = edit_exec(arg.input, arg.fs)
    /\ fpc' = "edited"
    /\ UNCHANGED <<arg, child, agentVars, parserVars>>

SpecEdit == InitEdit /\ [][CallEdit]_vars

----------------------------------------------------------------------------
(* bash_exec applied to one call, and its child process *)

TickSeconds == 60

BashCommands ==
    { <<"l", "s">>,
      <<"r", "m", " ", "-", "r", " ", "/", "t", "m", "p", "/", "x">>,
      <<"e", "c", "h", "o", " ", "R", "M">>,
      <<"r", "m", " ", "-", "r", "f", " ", "/">>,
      <<"R", "M", " ", "-", "R", "F", " ", "/">>,
      <<"s", "u", "d", "o", " ", "r", "m", " ", "-", "r", "f", " ", "~">>,
      <<"e", "c", "h", "o", " ", "r", "m", " ", "-", "r", "f", " ", ".">>,
      <<"r", "m", " ", "-", "r", "f", " ", "*">>,
      <<"m", "k", "f", "s", ".", "e", "x", "t", "4", " ", "/", "d", "e", "v", "/", "x">>,
      <<"d", "d", " ", "o", "f", "=", "/", "d", "e", "v", "/", "s", "d", "a">>,
      <<"D", "D", " ", "O", "F", "=", "/", "d", "e", "v", "/", "N", "V", "M", "E", "0">>,
      <<"x", " ", ">", " ", "/", "d", "e", "v", "/", "s", "d", "b">>,
      <<"C", "h", "m", "o", "d", " ", "-", "R", " ", "7", "7", "7", " ", "/">>,
      <<":", "(", ")", "{", " ", ":", "|", ":", "&", " ", "}", ";", ":">> }

BashInputs == { [command |-> Some(c)] : c \in BashCommands } \cup { [command |-> NoArg] }

Statuses == { Exited(0), Exited(1), Signalled(15) }

Outputs ==
    { <<>>,
      Str(<<" ", "o", "k", "NL">>),
      <<Run("x", MAX_BASH_OUTPUT + 1)>>,
      <<Run("EURO", MAX_BASH_OUTPUT \div 3 + 1)>> }

ErrOutputs == { <<>>, Str(<<"n", "o", "NL">>) }

InitBash ==
    /\ arg \in BashInputs
    /\ ret = "none"
    /\ child = NoChild
    /\ fpc = "bash"
    /\ AgentInit
    /\ ParserIdle

\* tools/mod.rs 148-154: the command is read and matched against the patterns
BashStart ==
    /\ fpc = "bash"
    /\ IF ~arg.command.some
       THEN ret' = Err(Lit("command is required")) /\ fpc' = "returned"
       ELSE LET lower == to_lowercase(arg.command.v)
            IN IF Matching(lower) # {}
               THEN ret' = Err(BlockedText(FirstPattern(lower))) /\ fpc' = "returned"
               ELSE ret' = ret /\ fpc' = "spawn"
    /\ UNCHANGED <<arg, child, agentVars, parserVars>>

\* tools/mod.rs 155-164: spawn succeeds
Spawn ==
    /\ fpc = "spawn"
    /\ child' = Child("running", Exited(0), <<>>, <<>>, 0, FALSE, FALSE)
    /\ fpc' = "wait"
    /\ UNCHANGED <<arg, ret, agentVars, parserVars>>

\* tools/mod.rs 164: spawn fails
SpawnFails ==
    /\ fpc = "spawn"
    /\ ret' = Err(Lit("exec failed: No such file or directory (os error 2)"))
    /\ fpc' = "returned"
    /\ UNCHANGED <<arg, child, agentVars, parserVars>>

\* time passes while wait_timeout blocks
Tick ==
    /\ fpc = "wait"
    /\ child.state = "running"
    /\ child.elapsed < BASH_TIMEOUT
    /\ child' = [child EXCEPT !.elapsed = Min(@ + TickSeconds, BASH_TIMEOUT)]
    /\ UNCHANGED <<arg, ret, fpc, agentVars, parserVars>>

\* the command ends by itself; the drain threads have read what it wrote
ChildExits(status, stdout, stderr) ==
    /\ child.state = "running"
    /\ child' = [child EXCEPT !.state = "exited", !.status = status,
                              !.stdout = stdout, !.stderr = stderr]
    /\ UNCHANGED <<arg, ret, fpc, agentVars, parserVars>>

\* tools/mod.rs 175-179 and 186-205: wait_timeout returns Some(status)
WaitReturns ==
    /\ fpc = "wait"
    /\ child.state = "exited"
    /\ child' = [child EXCEPT !.state = "reaped"]
    /\ ret' = Completed(child.status, child.stdout, child.stderr)
    /\ fpc' = "returned"
    /\ UNCHANGED <<arg, agentVars, parserVars>>

\* tools/mod.rs 175-180: wait_timeout returns None
WaitTimesOut ==
    /\ fpc = "wait"
    /\ child.state = "running"
    /\ child.elapsed = BASH_TIMEOUT
    /\ child' = [child EXCEPT !.timed_out = TRUE]
    /\ fpc' = "kill"
    /\ UNCHANGED <<arg, ret, agentVars, parserVars>>

\* the child is left to end by itself
Kill_Skipped ==
    /\ fpc = "kill"
    /\ fpc' = "reap"
    /\ UNCHANGED <<arg, ret, child, agentVars, parserVars>>

\* tools/mod.rs 181: child.kill()
Kill ==
    /\ fpc = "kill"
    /\ child' = IF child.state = "running"
                THEN [child EXCEPT !.state = "exited", !.status = Signalled(9),
                                   !.killed = TRUE]
                ELSE [child EXCEPT !.killed = TRUE]
    /\ fpc' = "reap"
    /\ UNCHANGED <<arg, ret, agentVars, parserVars>>

\* tools/mod.rs 182-183: child.wait() returns once the child has ended
Reap ==
    /\ fpc = "reap"
    /\ child.state = "exited"
    /\ child' = [child EXCEPT !.state = "reaped"]
    /\ ret' = Err(Lit("Command timed out after 120s and was killed"))
    /\ fpc' = "returned"
    /\ UNCHANGED <<arg, agentVars, parserVars>>

NextBash ==
    \/ BashStart
    \/ Spawn
    \/ SpawnFails
    \/ Tick
    \/ \E status \in Statuses, stdout \in Outputs, stderr \in ErrOutputs :
          ChildExits(status, stdout, stderr)
    \/ WaitReturns
    \/ WaitTimesOut
    \/ Kill
    \/ Reap

SpecBash == InitBash /\ [][NextBash]_vars

----------------------------------------------------------------------------
(* bash_exec with its child, the drain threads and the pipes *)

MaxWrite == 2
PipeCap == 1
Horizon == 240

Pipes == {"out", "err"}

\* what the command does: the units it writes to each stream before ending,
\* whether it ends by itself, and whether it leaves a background process
\* that has inherited both pipes
Behaviours ==
    [writes : [Pipes -> 0..MaxWrite], ends : BOOLEAN, forks : BOOLEAN]

\* the shell, what it has still to write, the units in each pipe, the
\* background process, and which drain threads have returned
Running(b) ==
    [shell |-> "running", pending |-> b.writes, pipe |-> [s \in Pipes |-> 0],
     bg |-> IF b.forks THEN "alive" ELSE "none",
     drained |-> [s \in Pipes |-> FALSE], elapsed |-> 0]

\* bash_exec has not returned yet
NotReturned == Err(<<>>)

\* every write end of the pipes is closed
WritersGone(c) == c.shell # "running" /\ c.bg # "alive"

InitPipes ==
    /\ AgentInit
    /\ ParserIdle
    /\ arg \in Behaviours
    /\ ret = NotReturned
    /\ child = NoChild
    /\ fpc = "spawn"

\* tools/mod.rs 160-173: the child is spawned with both streams piped and
\* the two drain threads are started
SpawnPiped ==
    /\ fpc = "spawn"
    /\ child' = Running(arg)
    /\ fpc' = "wait"
    /\ UNCHANGED <<arg, ret, agentVars, parserVars>>

\* the shell writes one unit; write blocks while the pipe is full
ShellWrites(s) ==
    /\ fpc # "spawn"
    /\ child.shell = "running"
    /\ child.pending[s] > 0
    /\ child.pipe[s] < PipeCap
    /\ child' = [child EXCEPT !.pending[s] = @ - 1, !.pipe[s] = @ + 1]
    /\ UNCHANGED <<arg, ret, fpc, agentVars, parserVars>>

\* the shell has written everything and ends
ShellExits ==
    /\ fpc # "spawn"
    /\ child.shell = "running"
    /\ arg.ends
    /\ \A s \in Pipes : child.pending[s] = 0
    /\ child' = [child EXCEPT !.shell = "exited"]
    /\ UNCHANGED <<arg, ret, fpc, agentVars, parserVars>>

\* the background process ends, when it does
BackgroundExits ==
    /\ fpc # "spawn"
    /\ child.bg = "alive"
    /\ child' = [child EXCEPT !.bg = "gone"]
    /\ UNCHANGED <<arg, ret, fpc, agentVars, parserVars>>

\* tools/mod.rs 166-170: read_to_string takes what is in the pipe
DrainReads(s) ==
    /\ fpc # "spawn"
    /\ ~child.drained[s]
    /\ child.pipe[s] > 0
    /\ child' = [child EXCEPT !.pipe[s] = @ - 1]
    /\ UNCHANGED <<arg, ret, fpc, agentVars, parserVars>>

\* tools/mod.rs 168-169: read_to_string sees the end of the stream, which
\* comes when the pipe is empty and no process holds its write end
DrainReturns(s) ==
    /\ fpc # "spawn"
    /\ ~child.drained[s]
    /\ child.pipe[s] = 0
    /\ WritersGone(child)
    /\ child' = [child EXCEPT !.drained[s] = TRUE]
    /\ UNCHANGED <<arg, ret, fpc, agentVars, parserVars>>

\* time passes while the shell runs and wait_timeout blocks
TickWait ==
    /\ fpc = "wait"
    /\ child.shell = "running"
    /\ child.elapsed < BASH_TIMEOUT
    /\ child' = [child EXCEPT !.elapsed = Min(@ + TickSeconds, BASH_TIMEOUT)]
    /\ UNCHANGED <<arg, ret, fpc, agentVars, parserVars>>

\* time passes while join blocks on a drain thread that waits for the end
\* of a stream another process keeps open
TickJoin ==
    /\ fpc \in {"join_out", "join_err"}
    /\ child.bg = "alive"
    /\ \A s \in Pipes : child.pipe[s] = 0
    /\ child.elapsed < Horizon
    /\ child' = [child EXCEPT !.elapsed = Min(@ + TickSeconds, Horizon)]
    /\ UNCHANGED <<arg, ret, fpc, agentVars, parserVars>>

\* tools/mod.rs 175-179: wait_timeout returns Some(status)
WaitSome ==
    /\ fpc = "wait"
    /\ child.shell = "exited"
    /\ child' = [child EXCEPT !.shell = "reaped"]
    /\ fpc' = "join_out"
    /\ UNCHANGED <<arg, ret, agentVars, parserVars>>

\* tools/mod.rs 180-184: wait_timeout returns None; the shell is killed and
\* reaped and the error is returned without joining the drain threads
WaitNone ==
    /\ fpc = "wait"
    /\ child.shell = "running"
    /\ child.elapsed = BASH_TIMEOUT
    /\ child' = [child EXCEPT !.shell = "reaped"]
    /\ ret' = Err(Lit("Command timed out after 120s and was killed"))
    /\ fpc' = "returned"
    /\ UNCHANGED <<arg, agentVars, parserVars>>

\* tools/mod.rs 186: out_h.join()
JoinOut ==
    /\ fpc = "join_out"
    /\ child.drained["out"]
    /\ fpc' = "join_err"
    /\ UNCHANGED <<arg, ret, child, agentVars, parserVars>>

\* tools/mod.rs 187-205: err_h.join(), and the result is built
JoinErr ==
    /\ fpc = "join_err"
    /\ child.drained["err"]
    /\ ret' = Ok(Lit("output"))
    /\ fpc' = "returned"
    /\ UNCHANGED <<arg, child, agentVars, parserVars>>

NextPipes ==
    \/ SpawnPiped
    \/ \E s \in Pipes : ShellWrites(s)
    \/ ShellExits
    \/ BackgroundExits
    \/ \E s \in Pipes : DrainReads(s)
    \/ \E s \in Pipes : DrainReturns(s)
    \/ TickWait
    \/ TickJoin
    \/ WaitSome
    \/ WaitNone
    \/ JoinOut
    \/ JoinErr

SpecPipes == InitPipes /\ [][NextPipes]_vars

\* the threads of the program, the shell and the kernel take their steps;
\* nothing makes a background process end
SpecPipesFair ==
    /\ SpecPipes
    /\ WF_vars(SpawnPiped)
    /\ \A s \in Pipes : WF_vars(ShellWrites(s))
    /\ WF_vars(ShellExits)
    /\ \A s \in Pipes : WF_vars(DrainReads(s))
    /\ \A s \in Pipes : WF_vars(DrainReturns(s))
    /\ WF_vars(TickWait)
    /\ WF_vars(TickJoin)
    /\ WF_vars(WaitSome)
    /\ WF_vars(WaitNone)
    /\ WF_vars(JoinOut)
    /\ WF_vars(JoinErr)

----------------------------------------------------------------------------
(* The two truncations applied to one text *)

MaxCut == 6

TruncTexts ==
    { <<>>,
      <<Run("EURO", 2)>>,
      <<Run("E_ACUTE", 3)>>,
      <<Run("x", 12000)>>,
      <<Run("E_ACUTE", 6000)>>,
      <<Run("EURO", 4000)>>,
      <<Run("x", 1), Run("EURO", 4000)>>,
      <<Run("E_ACUTE", 1), Run("EURO", 4000)>> }

Shortfalls == (1..MaxCut) \cup {TRUNCATE_ELIGIBLE + TRUNCATE_KEEP_MIN}

InitTruncate ==
    /\ arg \in [text : TruncTexts, remaining : Shortfalls, max : 0..MaxCut]
    /\ ret = "none"
    /\ child = NoChild
    /\ fpc = "truncate"
    /\ AgentInit
    /\ ParserIdle

Cut(by, end, s) == [by |-> by, end |-> end, s |-> s]

\* truncate_with_marker(&mut text, max)
CallTruncateWithMarker ==
    /\ fpc = "truncate"
    /\ ret' = Cut("truncate_with_marker", RevFind(arg.text, arg.max),
                  truncate_with_marker(arg.text, arg.max))
    /\ fpc' = "truncated"
    /\ UNCHANGED <<arg, child, agentVars, parserVars>>

\* truncate_oversized_blocks on a conversation of one Text block, with a
\* budget that leaves the shortfall arg.remaining
CallTruncateOversized ==
    /\ fpc = "truncate"
    /\ LET c == <<Message("user", <<Text(arg.text)>>)>>
           total == ConversationBytes(c)
           max_bytes == SatSub(total, arg.remaining)
       IN ret' = Cut("truncate_oversized_blocks",
                     CutPoint(arg.text, total - max_bytes),
                     truncate_oversized_blocks(c, max_bytes)[1].content[1].text)
    /\ fpc' = "truncated"
    /\ UNCHANGED <<arg, child, agentVars, parserVars>>

NextTruncate == CallTruncateWithMarker \/ CallTruncateOversized

SpecTruncate == InitTruncate /\ [][NextTruncate]_vars

----------------------------------------------------------------------------
(* list_exec applied to one call *)

MaxTreeDepth == 23
MaxDirFiles == 1001

Chain(k) == [i \in 1..k |-> "d"]

\* the directories of the paths given, with their ancestors
Dirs(paths) ==
    { Entry(SubSeq(p, 1, k), TRUE, 1) : <<p, k>> \in
         { <<p, k>> \in paths \X (1..MaxTreeDepth) : k <= Len(p) } }

FlatTree ==
    Dirs({ <<".git">>, <<"node_modules", "pkg">> })
      \cup { Entry(<<".git", "keep.txt">>, FALSE, 1),
             Entry(<<"node_modules", "pkg", "a.rs">>, FALSE, 1),
             Entry(<<"keep.txt">>, FALSE, 1) }

NestedTree ==
    Dirs({ <<"src", "target", "d">>, <<"src", "pkg", "vendor">>, <<"src", "pkg", "d">>,
           <<".venv">>, <<".devenv", "src">> })
      \cup { Entry(<<"src", "a.rs">>, FALSE, 1),
             Entry(<<"src", "target", "a.rs">>, FALSE, 1),
             Entry(<<"src", "target", "d", "a.rs">>, FALSE, 1),
             Entry(<<"src", "pkg", "vendor", "a.rs">>, FALSE, 1),
             Entry(<<"src", "pkg", "d", "keep.txt">>, FALSE, 1),
             Entry(<<".devenv", "src", "a.rs">>, FALSE, 1),
             Entry(<<"vendor">>, FALSE, 1) }

DeepTree ==
    Dirs({ Chain(MaxTreeDepth) })
      \cup { Entry(Chain(k) \o <<"keep.txt">>, FALSE, 1) : k \in 0..MaxTreeDepth }

WideTree ==
    Dirs({ <<"src", "pkg">>, <<".git">> })
      \cup { Entry(<<"src", "f">>, FALSE, MaxDirFiles),
             Entry(<<"src", "pkg", "a.rs">>, FALSE, 1),
             Entry(<<".git", "f">>, FALSE, MaxDirFiles),
             Entry(<<"keep.txt">>, FALSE, 1) }

Trees == { FlatTree, NestedTree, DeepTree, WideTree }

ListInputs ==
    [ path : { NoArg, Some(<<".git">>), Some(<<"src">>), Some(<<"src", "pkg">>),
               Some(<<"node_modules", "pkg">>), Some(<<"d", "d">>),
               Some(<<"keep.txt">>), Some(<<"a.rs">>) },
      recursive : { NoArg, Some(TRUE), Some(FALSE) } ]

InitList ==
    /\ arg \in [input : ListInputs, fs : Trees]
    /\ ret = "none"
    /\ child = NoChild
    /\ fpc = "list"
    /\ AgentInit
    /\ ParserIdle

CallList ==
    /\ fpc = "list"
    /\ ret' = list_exec(arg.input, arg.fs)
    /\ fpc' = "listed"
    /\ UNCHANGED <<arg, child, agentVars, parserVars>>

SpecList == InitList /\ [][CallList]_vars

----------------------------------------------------------------------------
(* Properties of the agent loop *)

AnswersOf(m, id) ==
    {k \in 1..Len(m.content) :
        m.content[k].type = "tool_result" /\ m.content[k].tool_use_id = id}

Paired(c) ==
    \A i \in 1..Len(c) :
        c[i].role = "assistant" =>
            \A k \in 1..Len(c[i].content) :
                c[i].content[k].type = "tool_use" =>
                    /\ i < Len(c)
                    /\ c[i + 1].role = "user"
                    /\ Cardinality(AnswersOf(c[i + 1], c[i].content[k].id)) = 1

\* C1: whenever the conversation is sent, every ToolUse block of every
\* assistant message is answered in the immediately following user message
\* by exactly one ToolResult carrying its id.
C1_PairingAtEverySend == pc = "sending" => Paired(conversation)

\* C5: after a failed turn (send or decode error, iteration ceiling) and its
\* recovery step the conversation is empty or ends with an assistant
\* message, so the next user Text never follows another user message.
C5_NoDanglingUserAfterFailure ==
    (pc = "idle" /\ outcome \in {"error", "ceiling"}) =>
        (conversation = <<>> \/ Last(conversation).role = "assistant")

\* C6: for one user input at most MAX_TOOL_ITERATIONS tool-result batches
\* are produced and at most MAX_TOOL_ITERATIONS requests are sent; at the
\* ceiling the only step of the loop is the forced exit, which runs
\* recover_conversation exactly as the send-failure branch does.
C6_TurnBounded ==
    /\ [](requests <= MAX_TOOL_ITERATIONS /\ batches <= MAX_TOOL_ITERATIONS)
    /\ [][(pc = "loop" /\ tool_iterations >= MAX_TOOL_ITERATIONS) =>
            (pc' = "idle" /\ conversation' = recover_conversation(conversation))]_vars
    /\ [][(pc = "sending" /\ pc' = "idle" /\ outcome' = "error") =>
            conversation' = recover_conversation(conversation)]_vars

C6_Witness ==
    /\ pc = "idle"
    /\ outcome = "ceiling"
    /\ requests = MAX_TOOL_ITERATIONS
    /\ batches = MAX_TOOL_ITERATIONS

\* every ToolResult of message i answers a ToolUse of message i - 1
ResultsAnswered(c) ==
    \A i \in 1..Len(c) :
        \A k \in 1..Len(c[i].content) :
            c[i].content[k].type = "tool_result" =>
                /\ i > 1
                /\ c[i - 1].role = "assistant"
                /\ \E j \in 1..Len(c[i - 1].content) :
                      /\ c[i - 1].content[j].type = "tool_use"
                      /\ c[i - 1].content[j].id = c[i].content[k].tool_use_id

IsToolUse(b) == b.type = "tool_use"

\* the ToolUse blocks among the first k blocks of message m, in order
ToolUsesUpTo(m, k) == SelectSeq(SubSeq(m.content, 1, k), IsToolUse)

Requested == Last(conversation)

Executed(m, k) ==
    SelectSeq(SubSeq(m.content, 1, k),
              LAMBDA b : /\ b.type = "tool_use"
                         /\ b.input # NullValue
                         /\ b.name \in {"read_file", "list_files", "bash",
                                        "edit_file", "code_search"})

\* C12: at most one tool function is executing at any time, the functions
\* are entered in the order of the assistant message's blocks, and the user
\* message appended after the batch holds one ToolResult per ToolUse block of
\* that assistant message, in the same order, each carrying its id
C12_OneAtATimeInOrder ==
    /\ [](Cardinality(inflight) <= 1 /\ (pc # "tool" => inflight = {}))
    /\ [](pc \in {"dispatch", "tool"} =>
             LET ex == Executed(Requested, IF pc = "tool" THEN cursor ELSE cursor - 1)
             IN /\ Len(started) = Len(ex)
                /\ \A n \in 1..Len(ex) : started[n] = ex[n].id
                /\ pc = "tool" => inflight = {Requested.content[cursor].id})
    /\ [][ (pc = "dispatch" /\ pc' = "loop") =>
              LET uses == ToolUsesUpTo(Requested, Len(Requested.content))
                  pushed == conversation'[Len(conversation')]
              IN /\ Len(conversation') = Len(conversation) + 1
                 /\ SubSeq(conversation', 1, Len(conversation)) = conversation
                 /\ pushed.role = "user"
                 /\ Len(pushed.content) = Len(uses)
                 /\ \A j \in 1..Len(uses) :
                       /\ pushed.content[j].type = "tool_result"
                       /\ pushed.content[j].tool_use_id = uses[j].id ]_vars

C12_Witness ==
    /\ pc = "loop"
    /\ started = <<"t0", "t6">>
    /\ Requested.role = "user"
    /\ Len(Requested.content) = 7
    /\ Requested.content[1].tool_use_id = "t0"
    /\ Requested.content[7].tool_use_id = "t6"
    /\ Requested.content[7].is_error = "None"

\* C13: in every state of the agent loop every ToolResult block carries the
\* id of a ToolUse block of the assistant message immediately before it
C13_ResultsReferencePreceding == ResultsAnswered(conversation)

UserTexts(c) == {i \in 1..Len(c) : c[i].role = "user" /\ FirstIs(c[i], "text")}

C13_Witness ==
    /\ pc = "sending"
    /\ turns = 2
    /\ Cardinality(UserTexts(conversation)) = 1
    /\ Len(conversation) = 3
    /\ conversation[3].content[1].type = "tool_result"
    /\ conversation[3].content[1].tool_use_id = conversation[2].content[1].id

\* C36: no message of a conversation that is sent to the endpoint has an
\* empty content list
C36_NoEmptyMessageSent ==
    pc = "sending" =>
        \A i \in 1..Len(conversation) : conversation[i].content # <<>>

\* the same for the user messages
C36_NoEmptyUserMessageSent ==
    pc = "sending" =>
        \A i \in 1..Len(conversation) :
            conversation[i].role = "user" => conversation[i].content # <<>>

----------------------------------------------------------------------------
(* Properties of recover_conversation and trim_conversation *)

\* C4: recover_conversation removes a trailing tool-result user message
\* together with the assistant message before it, removes a trailing user
\* Text message alone, and changes nothing when the conversation is empty or
\* ends with an assistant message; earlier messages are never changed and at
\* most two messages are removed.
C4_RecoverCases ==
    fpc = "recovered" =>
        LET n == Len(arg)
        IN /\ (arg = <<>> \/ Last(arg).role = "assistant") => ret = arg
           /\ (arg # <<>> /\ Last(arg).role = "user" /\ FirstIs(Last(arg), "text"))
                 => ret = SubSeq(arg, 1, n - 1)
           /\ (arg # <<>> /\ Last(arg).role = "user"
                 /\ FirstIs(Last(arg), "tool_result"))
                 => /\ n >= 2
                    /\ arg[n - 1].role = "assistant"
                    /\ ret = SubSeq(arg, 1, n - 2)
           /\ Len(ret) >= n - 2
           /\ Len(ret) <= n
           /\ ret = SubSeq(arg, 1, Len(ret))

C4_Witness ==
    /\ fpc = "recovered"
    /\ Len(arg) >= 3
    /\ FirstIs(Last(arg), "tool_result")
    /\ Len(ret) = Len(arg) - 2

HasType(m, type) == \E k \in 1..Len(m.content) : m.content[k].type = type

\* the role of a message and, block by block, everything but the text
Shape(m) ==
    [role |-> m.role,
     content |-> [k \in 1..Len(m.content) |->
                     CASE m.content[k].type = "text" -> [type |-> "text"]
                       [] m.content[k].type = "tool_use" -> m.content[k]
                       [] m.content[k].type = "tool_result" ->
                             [m.content[k] EXCEPT !.content = <<>>]]]

\* C2: trim_conversation removes only a prefix that ends just before a user
\* message whose first block is Text; the result holds no ToolResult whose
\* requesting assistant message was dropped and does not start with a
\* ToolResult message.
C2_TrimCutsAtUserText ==
    fpc = "trimmed" =>
        LET c == arg.conversation
            cut == Len(c) - Len(ret) + 1
        IN /\ Len(ret) <= Len(c)
           /\ \A i \in 1..Len(ret) : Shape(ret[i]) = Shape(c[cut + i - 1])
           /\ cut > 1 => (c[cut].role = "user" /\ FirstIs(c[cut], "text"))
           /\ ResultsAnswered(ret)
           /\ ret # <<>> => ~HasType(ret[1], "tool_result")

C2_Witness ==
    /\ fpc = "trimmed"
    /\ Len(ret) < Len(arg.conversation)
    /\ \E i \in 1..(Len(arg.conversation) - Len(ret)) :
          HasType(arg.conversation[i], "tool_result")
    /\ \E i \in 1..Len(ret) : HasType(ret[i], "tool_result")

\* C3 as stated: after trim_conversation the serialized size is at most
\* max_bytes, for every conversation and every budget.
C3_AlwaysWithinBudget ==
    fpc = "trimmed" => ConversationBytes(ret) <= arg.max_bytes

SomeSuffixFits(c, max_bytes) ==
    \E i \in 2..Len(c) :
        /\ c[i].role = "user"
        /\ FirstIs(c[i], "text")
        /\ ConversationBytes(Drain(c, i)) <= max_bytes

\* C3 amended: the result is within max_bytes when the conversation was
\* within it on entry or when the suffix starting at some exchange boundary
\* other than the first fits.
C3_WithinBudgetWhenSuffixFits ==
    (fpc = "trimmed"
       /\ (ConversationBytes(arg.conversation) <= arg.max_bytes
             \/ SomeSuffixFits(arg.conversation, arg.max_bytes)))
        => ConversationBytes(ret) <= arg.max_bytes

C3_Witness ==
    /\ fpc = "trimmed"
    /\ ConversationBytes(arg.conversation) > arg.max_bytes
    /\ SomeSuffixFits(arg.conversation, arg.max_bytes)
    /\ Len(ret) < Len(arg.conversation)
    /\ ConversationBytes(ret) <= arg.max_bytes

\* C21: a conversation whose serialized size is at most the budget comes
\* back from trim_conversation unchanged
C21_UnderBudgetUnchanged ==
    (fpc = "trimmed" /\ ConversationBytes(arg.conversation) <= arg.max_bytes)
        => ret = arg.conversation

C21_Witness ==
    /\ fpc = "trimmed"
    /\ ConversationBytes(arg.conversation) = arg.max_bytes
    /\ Cardinality(UserTexts(arg.conversation)) > 2
    /\ ret = arg.conversation

\* the exchange boundaries other than the first whose suffix fits
FittingBoundaries(c, max_bytes) ==
    {i \in UserTexts(c) :
        /\ \E j \in UserTexts(c) : j < i
        /\ ConversationBytes(SubSeq(c, i, Len(c))) <= max_bytes}

\* C22: over budget, when the suffix at some exchange boundary other than
\* the first fits, the result is exactly the suffix that starts at the
\* earliest such boundary, its messages unmodified
C22_DropsToEarliestFit ==
    (/\ fpc = "trimmed"
     /\ ConversationBytes(arg.conversation) > arg.max_bytes
     /\ FittingBoundaries(arg.conversation, arg.max_bytes) # {})
        => LET c == arg.conversation
               fits == FittingBoundaries(c, arg.max_bytes)
               cut == CHOOSE i \in fits : \A j \in fits : i <= j
           IN /\ Len(ret) = Len(c) - cut + 1
              /\ \A k \in 1..Len(ret) : ret[k] = c[cut + k - 1]

C22_Witness ==
    /\ fpc = "trimmed"
    /\ ConversationBytes(arg.conversation) > arg.max_bytes
    /\ Cardinality(FittingBoundaries(arg.conversation, arg.max_bytes)) = 2
    /\ Cardinality(UserTexts(arg.conversation)) = 3
    /\ Len(ret) < Len(arg.conversation)
    /\ Cardinality(UserTexts(ret)) = 2

\* the messages of r are those of c from index cut on, block for block,
\* whatever their texts
SameStructure(r, c, cut) ==
    /\ Len(r) = Len(c) - cut + 1
    /\ \A k \in 1..Len(r) : Shape(r[k]) = Shape(c[cut + k - 1])

\* C23: over budget with at most one exchange boundary, no message is
\* removed and the content is truncated; with two or more boundaries none
\* of whose suffixes fits, the messages before the last boundary are dropped
\* and the content of the remaining exchange is truncated
C23_StructuralFallback ==
    (fpc = "trimmed" /\ ConversationBytes(arg.conversation) > arg.max_bytes) =>
        LET c == arg.conversation
            bs == UserTexts(c)
        IN /\ Cardinality(bs) <= 1 =>
                 /\ SameStructure(ret, c, 1)
                 /\ ret = truncate_oversized_blocks(c, arg.max_bytes)
           /\ (/\ Cardinality(bs) >= 2
               /\ \A i \in bs : ConversationBytes(SubSeq(c, i, Len(c))) > arg.max_bytes) =>
                 LET last == CHOOSE i \in bs : \A j \in bs : j <= i
                 IN /\ SameStructure(ret, c, last)
                    /\ ret = truncate_oversized_blocks(SubSeq(c, last, Len(c)),
                                                       arg.max_bytes)

C23_Witness ==
    /\ fpc = "trimmed"
    /\ ConversationBytes(arg.conversation) > arg.max_bytes
    /\ Cardinality(UserTexts(arg.conversation)) = 3
    /\ Cardinality(UserTexts(ret)) = 1
    /\ \E k \in 1..Len(ret) :
          ret[k] # arg.conversation[Len(arg.conversation) - Len(ret) + k]

\* the message of c that the k-th message of the result r was
Origin(r, c, k) == c[Len(c) - Len(r) + k]

\* C39: a conversation holding an exchange boundary is never emptied by
\* trim_conversation: the last user message whose first block is Text and
\* every message after it are in the result, and each message of the result
\* has the role, the ToolUse blocks and the tool_use_id and is_error fields
\* of the message it was, only texts being shortened.
C39_LastExchangeSurvives ==
    (fpc = "trimmed" /\ UserTexts(arg.conversation) # {}) =>
        LET c == arg.conversation
            last == CHOOSE i \in UserTexts(c) : \A j \in UserTexts(c) : j <= i
        IN /\ ret # <<>>
           /\ Len(ret) <= Len(c)
           /\ Len(ret) >= Len(c) - last + 1
           /\ \A k \in 1..Len(ret) :
                 Shape(ret[k]) = Shape(Origin(ret, c, k))

C39_Witness ==
    /\ fpc = "trimmed"
    /\ Cardinality(UserTexts(arg.conversation)) >= 2
    /\ Len(ret) < Len(arg.conversation)
    /\ \E k \in 1..Len(ret) : ret[k] # Origin(ret, arg.conversation, k)
    /\ \E k \in 1..Len(ret) : HasType(ret[k], "tool_use")
    /\ \E k \in 1..Len(ret) : HasType(ret[k], "tool_result")

EndsWith(t, u) == Len(u) <= Len(t) /\ SubSeq(t, Len(t) - Len(u) + 1, Len(t)) = u

\* the blocks of a conversation in the order the loop visits them
RECURSIVE Flat(_)
Flat(c) == IF c = <<>> THEN <<>> ELSE c[1].content \o Flat(Tail(c))

TextOf(b) ==
    IF b.type = "text" THEN b.text ELSE IF b.type = "tool_result" THEN b.content ELSE <<>>

Shortened == fpc = "shortened" /\ SameStructure(ret, arg.conversation, 1)

Modified(j) == Flat(ret)[j] # Flat(arg.conversation)[j]

\* what block j kept of its text, the marker left aside
Kept(j) ==
    LET new == TextOf(Flat(ret)[j])
    IN SubSeq(new, 1, Len(new) - Len(TruncationMarker))

GivenUp(j) == TextLen(TextOf(Flat(arg.conversation)[j])) - TextLen(Kept(j))

\* the deficit left when the loop reaches block j
RECURSIVE DeficitAt(_)
DeficitAt(j) ==
    IF j = 1 THEN SatSub(ConversationBytes(arg.conversation), arg.max_bytes)
    ELSE IF Modified(j - 1) THEN SatSub(DeficitAt(j - 1), GivenUp(j - 1))
    ELSE DeficitAt(j - 1)

IsLeadingPart(t, u) ==
    /\ Len(t) <= Len(u)
    /\ \A i \in 1..Len(t) :
          /\ t[i].c = u[i].c
          /\ IF i < Len(t) THEN t[i].n = u[i].n ELSE t[i].n <= u[i].n

\* t is what is left of u when characters are removed at its beginning
IsTrailingPart(t, u) ==
    /\ Len(t) <= Len(u)
    /\ \A i \in 1..Len(t) :
          LET k == Len(u) - Len(t) + i
          IN /\ t[i].c = u[k].c
             /\ IF i > 1 THEN t[i].n = u[k].n ELSE t[i].n <= u[k].n

\* C25 (as stated): a truncated block holds a trailing part of its original
\* text, followed by the marker
C25_KeepsTrailingPart ==
    Shortened =>
        \A j \in 1..Len(Flat(arg.conversation)) :
            Modified(j) =>
                /\ EndsWith(TextOf(Flat(ret)[j]), TruncationMarker)
                /\ IsTrailingPart(Kept(j), TextOf(Flat(arg.conversation)[j]))

\* C25 (amended): a truncated block holds a leading part of its original
\* text, followed by the marker: the characters are removed at the end
C25_KeepsLeadingPart ==
    Shortened =>
        \A j \in 1..Len(Flat(arg.conversation)) :
            Modified(j) =>
                /\ EndsWith(TextOf(Flat(ret)[j]), TruncationMarker)
                /\ IsLeadingPart(Kept(j), TextOf(Flat(arg.conversation)[j]))
                /\ TextLen(Kept(j)) < TextLen(TextOf(Flat(arg.conversation)[j]))

C25_Witness ==
    /\ Shortened
    /\ \E j \in 1..Len(Flat(arg.conversation)) :
          /\ Modified(j)
          /\ Len(TextOf(Flat(arg.conversation)[j])) = 2
          /\ Len(Kept(j)) = 2
          /\ IsLeadingPart(Kept(j), TextOf(Flat(arg.conversation)[j]))
          /\ ~IsTrailingPart(Kept(j), TextOf(Flat(arg.conversation)[j]))

----------------------------------------------------------------------------
(* Properties of the stream decoder *)

ParseOrNull(j) == LET r == ParseJson(j) IN IF r.ok THEN r.s ELSE NullValue

IsToolDescriptor(d) ==
    d.type = "tool_use" /\ d.id \notin {Absent, ""} /\ d.name \notin {Absent, ""}

\* the block a started block stands for once its stop has gone out
Reassembled(b) ==
    IF IsToolDescriptor(b.desc)
    THEN ToolUse(b.desc.id, b.desc.name, ParseOrNull(b.json))
    ELSE Text(b.text)

RECURSIVE ReassembledList(_)
ReassembledList(sent) ==
    IF sent = <<>> THEN <<>>
    ELSE LET b == Reassembled(sent[1])
         IN (IF b = Text(<<>>) THEN <<>> ELSE <<b>>) \o ReassembledList(Tail(sent))

AllStopped(f) == \A i \in 1..Len(f.sent) : f.sent[i].stopped

Finished == decoded.done /\ decoded.by = "finish"

CorruptAt(i) ==
    /\ i # NoIndex
    /\ i + 1 <= Len(blocks)
    /\ blocks[i + 1].type = "tool_use"
    /\ fragments[i + 1] # <<>>
    /\ ~ParseJson(fragments[i + 1]).ok

CorruptStopped(f) ==
    \E i \in 1..Len(f.sent) :
        /\ f.sent[i].stopped
        /\ IsToolDescriptor(f.sent[i].desc)
        /\ f.sent[i].json # <<>>
        /\ ~ParseJson(f.sent[i].json).ok

\* C8: a content_block_stop for a ToolUse block whose accumulated fragment
\* text does not parse sets that block's input to null, returns Ok and
\* changes nothing else; finish afterwards returns every block that is not an
\* empty Text, the block with the null input among them, and the stop reason
C8_CorruptInputIsSoft ==
    /\ [][ (event = "content_block_stop" /\ CorruptAt(feed'.stop_at))
             => /\ ~decoded'.done
                /\ blocks' = [blocks EXCEPT ![feed'.stop_at + 1].input = NullValue]
                /\ fragments' = fragments
                /\ stop_reason' = stop_reason
                /\ message_complete' = message_complete ]_vars
    /\ [](  (decoded.done /\ feed.wf /\ CorruptStopped(feed) /\ message_complete)
            => /\ Finished
               /\ decoded.r.ok
               /\ decoded.r.stop = "EndTurn"
               /\ decoded.r.blocks = SelectSeq(blocks, NotPlaceholder)
               /\ \A i \in 1..Len(feed.sent) :
                     IsToolDescriptor(feed.sent[i].desc)
                        => \E k \in 1..Len(decoded.r.blocks) :
                              /\ decoded.r.blocks[k].type = "tool_use"
                              /\ decoded.r.blocks[k].id = feed.sent[i].desc.id )

C8_Witness ==
    /\ Finished /\ decoded.r.ok /\ feed.wf
    /\ Len(feed.sent) = 2
    /\ feed.sent[2].stopped /\ feed.sent[2].json = Lit("{")
    /\ decoded.r.blocks = <<Text(Lit("a")), ToolUse("t1", "bash", NullValue)>>

RECURSIVE LastRecognized(_)
LastRecognized(ds) ==
    IF ds = <<>> THEN "None"
    ELSE LET d == ds[Len(ds)]
         IN IF d = "end_turn" THEN "EndTurn"
            ELSE IF d = "tool_use" THEN "ToolUse"
            ELSE IF d = "max_tokens" THEN "MaxTokens"
            ELSE LastRecognized(SubSeq(ds, 1, Len(ds) - 1))

\* C9: finish returns the last recognized stop reason a message_delta
\* delivered, wherever message_stop came; with none delivered it returns
\* EndTurn exactly when a message_stop was seen, and otherwise the error
\* "stream ended without stop_reason", whatever block events were received
C9_StopReasonResolution ==
    Finished =>
        LET last == LastRecognized(feed.delivered)
        IN IF last # "None" THEN decoded.r.ok /\ decoded.r.stop = last
           ELSE IF feed.ended THEN decoded.r.ok /\ decoded.r.stop = "EndTurn"
           ELSE /\ ~decoded.r.ok
                /\ decoded.r.error =
                      [kind |-> "StreamParse",
                       msg |-> <<"stream ended without stop_reason">>]

C9_Witness ==
    /\ Finished
    /\ feed.delivered = <<"end_turn", "tool_use">>
    /\ feed.ended
    /\ blocks # <<>>
    /\ decoded.r.ok /\ decoded.r.stop = "ToolUse"

IsPrefix(a, b) == Len(a) <= Len(b) /\ SubSeq(b, 1, Len(a)) = a

ParserUntouched ==
    UNCHANGED <<event, blocks, fragments, stop_reason, message_complete>>

\* send_message has returned an error out of process_line
Aborted == decoded.done /\ decoded.by = "process_line" /\ ~decoded.r.ok

\* the one step after an aborted decode ends the turn through the recovery
\* step: no line is processed, no assistant message is appended
AbortEndsTurn ==
    [][(pc = "sending" /\ Aborted) =>
          /\ pc' = "idle"
          /\ outcome' = "error"
          /\ conversation' = recover_conversation(conversation)
          /\ IsPrefix(conversation', conversation)
          /\ \A i \in 1..Len(conversation') : conversation'[i] = conversation[i]
          /\ decoded' = decoded
          /\ ParserUntouched]_vars

\* C28: a data line under the error event aborts the decode at once,
\* whatever blocks, fragments or stop reason the parser holds: send_message
\* returns the error "stream error: " followed by the message of the payload
\* and no block list, no later line is processed and no assistant message is
\* appended to the conversation
C28_ErrorEventAborts ==
    /\ [][\A line \in TurnLines :
             (StreamLine(line) /\ event = "error" /\ line.kind = "data" /\ line.ok) =>
                 /\ Aborted'
                 /\ decoded'.r.error.kind = "StreamParse"
                 /\ line.json.error.message # Absent =>
                       decoded'.r.error.msg =
                           <<"stream error: ", line.json.error.message>>
                 /\ "blocks" \notin DOMAIN decoded'.r
                 /\ ParserUntouched]_vars
    /\ AbortEndsTurn

C28_Witness ==
    /\ pc = "idle"
    /\ outcome = "error"
    /\ Aborted
    /\ decoded.r.error = StreamParse(<<"stream error: ", "Overloaded">>)
    /\ Len(blocks) > 0 /\ blocks[1].text # <<>>
    /\ fragments[1] # <<>>
    /\ stop_reason # None
    /\ turns = 2
    /\ Len(conversation) = 2
    /\ Last(conversation).role = "assistant"

\* C29: a data line whose payload is no well-formed JSON makes process_line
\* return the JSON error whatever the current event name is (one the decoder
\* handles, one it ignores, or none yet), the decode is aborted and the turn
\* ends through the recovery step
C29_MalformedJsonIsHard ==
    /\ [](pc = "sending" /\ ~decoded.done =>
             process_line(ParserState, MalformedLine) = Abort(JsonError))
    /\ [][\A line \in TurnLines :
             (StreamLine(line) /\ line.kind = "data" /\ ~line.ok) =>
                 /\ Aborted'
                 /\ decoded'.r.error = JsonError
                 /\ ParserUntouched]_vars
    /\ AbortEndsTurn

\* under an event name the decoder ignores
C29_Witness ==
    /\ pc = "idle"
    /\ outcome = "error"
    /\ Aborted
    /\ decoded.r.error = JsonError
    /\ event = "ping"
    /\ Len(blocks) > 0

\* before any event line
C29_WitnessNoEvent ==
    /\ pc = "idle"
    /\ outcome = "error"
    /\ Aborted
    /\ decoded.r.error = JsonError
    /\ event = ""

\* under an event name the decoder handles
C29_WitnessHandled ==
    /\ pc = "idle"
    /\ outcome = "error"
    /\ Aborted
    /\ decoded.r.error = JsonError
    /\ event = "content_block_delta"
    /\ stop_reason # None

\* a tool_use descriptor whose id or name is missing or empty
Incomplete(d) == d.type = "tool_use" /\ ~IsToolDescriptor(d)

\* the blocks of bs that are not an empty Text, in their order
RECURSIVE WithoutEmptyText(_)
WithoutEmptyText(bs) ==
    IF bs = <<>> THEN <<>>
    ELSE IF bs[1].type = "text" /\ bs[1].text = <<>>
    THEN WithoutEmptyText(Tail(bs))
    ELSE <<bs[1]>> \o WithoutEmptyText(Tail(bs))

\* C30: a content_block_start declaring a tool_use whose id or name is
\* missing or empty pushes an empty Text block and an empty fragment, so the
\* block takes one index and every block started later sits at the index the
\* stream gave it; left without text it is not among the blocks returned
C30_IncompleteToolUseIsPlaceholder ==
    /\ [][\A line \in StartLines :
             (ProcessLine(line) /\ event = "content_block_start"
                /\ line.kind = "data" /\ Incomplete(line.json.content_block)) =>
                 /\ blocks' = Append(blocks, Text(<<>>))
                 /\ fragments' = Append(fragments, <<>>)
                 /\ ~decoded'.done]_vars
    /\ [](feed.wf =>
             /\ Len(blocks) = Len(feed.sent)
             /\ Len(fragments) = Len(feed.sent)
             /\ \A i \in 1..Len(feed.sent) :
                   /\ Incomplete(feed.sent[i].desc) => blocks[i] = Text(<<>>)
                   /\ IsToolDescriptor(feed.sent[i].desc) =>
                         /\ blocks[i].type = "tool_use"
                         /\ blocks[i].id = feed.sent[i].desc.id
                         /\ blocks[i].name = feed.sent[i].desc.name
                         /\ fragments[i] = feed.sent[i].json)
    /\ []((Finished /\ decoded.r.ok) =>
             /\ decoded.r.blocks = WithoutEmptyText(blocks)
             /\ feed.wf =>
                   /\ Len(decoded.r.blocks) =
                         Cardinality({i \in 1..Len(feed.sent) :
                                         IsToolDescriptor(feed.sent[i].desc)})
                   /\ \A k \in 1..Len(decoded.r.blocks) :
                         decoded.r.blocks[k].type = "tool_use")

C30_Witness ==
    /\ Finished /\ decoded.r.ok /\ feed.wf
    /\ Len(feed.sent) = 2
    /\ feed.sent[1].desc = Descriptor("tool_use", Absent, "bash")
    /\ feed.sent[2].desc = Descriptor("tool_use", "t1", "bash")
    /\ blocks = <<Text(<<>>), ToolUse("t1", "bash", NullValue)>>
    /\ fragments = <<<<>>, Lit("{")>>
    /\ decoded.r.blocks = <<ToolUse("t1", "bash", NullValue)>>

\* the input the decoder ignores in parser state ps: a blank line, a line
\* that is neither an event nor a data line, a delta or a stop without an
\* index, a delta whose index is outside the block list
IgnoredIn(ps, line) ==
    \/ line.kind \in {"blank", "other"}
    \/ /\ line.kind = "data" /\ line.ok
       /\ \/ /\ ps.event \in {"content_block_delta", "content_block_stop"}
             /\ line.json.index = NoIndex
          \/ /\ ps.event = "content_block_delta"
             /\ line.json.index # NoIndex
             /\ line.json.index >= Len(ps.blocks)

\* C31: ignored input returns no error and leaves the block list, the
\* fragments, the recorded stop reason and the end-of-message flag (and the
\* current event name) as they were
C31_IgnoredInputChangesNothing ==
    ~decoded.done =>
        \A line \in BlockLines :
            IgnoredIn(ParserState, line) =>
                LET r == process_line(ParserState, line)
                IN /\ r.ok
                   /\ r.ps.blocks = blocks
                   /\ r.ps.fragments = fragments
                   /\ r.ps.stop_reason = stop_reason
                   /\ r.ps.message_complete = message_complete
                   /\ r.ps.event = event

\* a delta for index 1 has gone out while one block was started, and the
\* block and its fragment still hold what the deltas for index 0 gave them
C31_Witness ==
    /\ ~decoded.done
    /\ event = "content_block_delta"
    /\ ~feed.wf
    /\ blocks = <<Text(Lit("a"))>>
    /\ fragments = <<Lit("{")>>
    /\ IgnoredIn(ParserState, DataLine(TextDelta(1, Lit("b"))))

\* the lines the decoder is given when the whole stream comes as one chunk
LinesOfStream(bytes) ==
    OnEnd(OnChunk([buf |-> <<>>, lines |-> <<>>], bytes)).lines

\* C32: the lines given to the decoder are those of the concatenated stream,
\* however the stream is cut into chunks, a last line without line feed
\* included
C32_ChunkingIrrelevant ==
    fpc = "finish" => ret.lines = LinesOfStream(arg.stream)

\* the same for the streams of one-byte characters
C32_ChunkingIrrelevantAscii ==
    (fpc = "finish" /\ \A i \in 1..Len(arg.stream) : arg.stream[i] \notin {"L", "C"})
        => ret.lines = LinesOfStream(arg.stream)

\* argument text that is there and is no JSON
Malformed(json) == json # <<>> /\ ~ParseJson(json).ok

\* C35: after a complete decode a ToolUse block that was started and
\* stopped, and whose argument text was not malformed, does not have the
\* null input, so that the agent loop does not answer it with 'tool input
\* was corrupt'
C35_NullOnlyFromCorruption ==
    (Finished /\ decoded.r.ok /\ feed.wf) =>
        \A i \in 1..Len(feed.sent) :
            (IsToolDescriptor(feed.sent[i].desc) /\ feed.sent[i].stopped
               /\ ~Malformed(feed.sent[i].json))
                => /\ blocks[i].type = "tool_use"
                   /\ ~ShortCircuits(blocks[i])

\* the same for the blocks that received argument text
C35_NullOnlyFromCorruptText ==
    (Finished /\ decoded.r.ok /\ feed.wf) =>
        \A i \in 1..Len(feed.sent) :
            (IsToolDescriptor(feed.sent[i].desc) /\ feed.sent[i].stopped
               /\ feed.sent[i].json # <<>> /\ ParseJson(feed.sent[i].json).ok)
                => /\ blocks[i].type = "tool_use"
                   /\ ~ShortCircuits(blocks[i])

\* the line is a payload processed under the event name content_block_start
StartsBlock(ev, line) ==
    ev = "content_block_start" /\ line.kind = "data" /\ line.ok

\* ps is the decoder state with n more blocks, the earlier ones in place
Grown(ps, n) ==
    /\ Len(ps.blocks) = Len(blocks) + n
    /\ Len(ps.fragments) = Len(fragments) + n
    /\ \A i \in 1..Len(blocks) : ps.blocks[i].type = blocks[i].type

\* C40: the block list and the fragment list have the same length, the
\* number of content_block_start payloads processed so far; a payload under
\* content_block_start lengthens both by one at the end and no other line
\* changes the length of either, so a block sits at the index that counts
\* the content_block_start payloads before its own.
C40_ListsAlignedWithStarts ==
    /\ [](/\ Len(blocks) = Len(fragments)
          /\ Len(blocks) = feed.starts
          /\ ~decoded.done =>
                \A line \in BlockLines :
                   LET r == process_line(ParserState, line)
                   IN r.ok => Grown(r.ps, IF StartsBlock(event, line) THEN 1 ELSE 0))
    /\ [][ Grown([blocks |-> blocks', fragments |-> fragments'],
                 feed'.starts - feed.starts) ]_vars

C40_Witness ==
    /\ ~decoded.done
    /\ ~feed.wf
    /\ feed.starts = MaxBlocks
    /\ event = "content_block_stop"
    /\ blocks[1] = Text(<<>>)
    /\ blocks[2].type = "tool_use" /\ blocks[2].input # NullValue

----------------------------------------------------------------------------
(* Properties of dispatch_tool *)

FiveTools == {"read_file", "list_files", "bash", "edit_file", "code_search"}

Names(content, name) == \E i \in 1..Len(content) : content[i].c = name

\* C10: dispatch_tool returns one ToolResult carrying the id it was given:
\* an error naming the tool when the name is not one of the five tools,
\* the tool's text without an error flag when the tool succeeded, and the
\* tool's text with the error flag when it failed
C10_DispatchAlwaysAnswers ==
    fpc = "dispatched" =>
        /\ ret.type = "tool_result"
        /\ ret.tool_use_id = arg.id
        /\ IF arg.name \notin FiveTools
           THEN ret.is_error = "Some(true)" /\ Names(ret.content, arg.name)
           ELSE /\ ret.content = arg.out.s
                /\ ret.is_error = (IF arg.out.ok THEN "None" ELSE "Some(true)")

C10_Witness ==
    /\ fpc = "dispatched"
    /\ arg.name = "bash" /\ ~arg.out.ok /\ arg.id = "t2"
    /\ ret.is_error = "Some(true)" /\ ret.tool_use_id = "t2"

\* C38: in the agent loop a conversation that is not empty starts with a
\* user message whose first block is Text
C38_StartsWithUserText ==
    conversation # <<>> =>
        /\ conversation[1].role = "user"
        /\ FirstIs(conversation[1], "text")

\* the second turn's first request is out, the first turn ended without an
\* error, and trimming has dropped the first exchange
C38_Witness ==
    /\ pc = "sending"
    /\ turns = 2
    /\ requests = 1
    /\ outcome \in {"end_turn", "max_tokens", "no_tools"}
    /\ UserTexts(conversation) = {1}
    /\ Len(conversation) = 1

\* C37: when the iteration ceiling has ended a turn, every batch of tool
\* results of that turn was part of a request (the request that follows
\* it): no executed batch was taken out of the conversation unsent
C37_ExecutedBatchesDelivered ==
    (pc = "idle" /\ outcome = "ceiling") => requests > batches

\* up to the ceiling every batch but the newest has been sent
C37_EarlierBatchesDelivered ==
    pc \in {"loop", "sending", "dispatch", "tool"} =>
        /\ requests >= batches
        /\ pc # "loop" => requests > batches

\* the ceiling has ended a turn after as many batches as requests
C37_BatchDropped ==
    /\ pc = "idle"
    /\ outcome = "ceiling"
    /\ batches = MAX_TOOL_ITERATIONS
    /\ requests = MAX_TOOL_ITERATIONS
    /\ Len(started) > 0

\* the blocks of bs that are not a ToolUse with null input, in their order
RECURSIVE WithoutNullToolUse(_)
WithoutNullToolUse(bs) ==
    IF bs = <<>> THEN <<>>
    ELSE IF bs[1].type = "tool_use" /\ bs[1].input = NullValue
    THEN WithoutNullToolUse(Tail(bs))
    ELSE <<bs[1]>> \o WithoutNullToolUse(Tail(bs))

Decoded == ContinueResponses \cup ExitResponses

\* C26: when the decode ends with stop reason MaxTokens, the assistant
\* message appended holds the decoded blocks without the ToolUse blocks of
\* null input, the others in their order, and the turn ends
C26_MaxTokensStripsNullToolUse ==
    [][\A r \in Decoded :
          (ReceiveResponse(r) /\ r.stop = "MaxTokens") =>
              /\ Len(conversation') = Len(conversation) + 1
              /\ SubSeq(conversation', 1, Len(conversation)) = conversation
              /\ Last(conversation').role = "assistant"
              /\ Last(conversation').content = WithoutNullToolUse(r.blocks)
              /\ pc' = "idle"]_vars

C26_Witness ==
    /\ pc = "idle"
    /\ outcome = "max_tokens"
    /\ Last(conversation).role = "assistant"
    /\ Len(Last(conversation).content) = 3
    /\ Last(conversation).content[2].type = "tool_use"
    /\ Last(conversation).content[3].type = "text"

Dispatching == pc \in {"dispatch", "tool"}

\* the step that leaves the dispatch loop has pushed the batch of results
BatchPushed ==
    /\ pc' = "loop"
    /\ Len(conversation') = Len(conversation) + 1
    /\ Last(conversation').role = "user"
    /\ Last(conversation').content # <<>>
    /\ \A k \in 1..Len(Last(conversation').content) :
          Last(conversation').content[k].type = "tool_result"

\* a decode with stop reason EndTurn or MaxTokens ends the turn, one with
\* ToolUse enters the dispatch loop; a turn that has ended sends nothing, and
\* only a new user input starts the loop again
StopReasonDecides ==
    /\ [][\A r \in Decoded :
             ReceiveResponse(r) =>
                 IF r.stop = "ToolUse" THEN pc' = "dispatch" ELSE pc' = "idle"]_vars
    /\ [][pc = "idle" =>
             \/ pc' = "idle" /\ requests' = requests
             \/ pc' = "loop" /\ turns' = turns + 1 /\ requests' = 0]_vars

\* below the ceiling the one step the top of the loop takes is to send the
\* next request
LoopSends ==
    [][(pc = "loop" /\ tool_iterations < MAX_TOOL_ITERATIONS) =>
           (pc' = "sending" /\ requests' = requests + 1)]_vars

C27_WitnessNoToolUse ==
    /\ pc = "idle"
    /\ outcome = "no_tools"
    /\ Last(conversation).role = "assistant"
    /\ ~HasType(Last(conversation), "tool_use")

----------------------------------------------------------------------------
(* Properties of edit_file *)

\* the positions at which pat matches the contents
Positions(content, pat) ==
    {i \in 1..Len(content) :
        /\ i + Len(pat) - 1 <= Len(content)
        /\ \A k \in 1..Len(pat) : content[i + k - 1] = pat[k]}

Replacing(input, fs) ==
    /\ input.path.some /\ input.old_str.some /\ input.new_str.some
    /\ input.old_str.v # <<>>
    /\ input.old_str.v # input.new_str.v
    /\ fs.exists
    /\ fs.extra = 0

\* C14: with a non-empty old_str on an existing file, the text is replaced
\* only when old_str matches at exactly one position, and then that
\* occurrence alone is replaced; with no position the result is the error
\* 'old_str not found', with n > 1 positions the error 'old_str found n
\* times', and in both cases the file is unchanged
C14_EditRequiresUniqueOccurrence ==
    (fpc = "edited" /\ Replacing(arg.input, arg.fs)) =>
        LET old == arg.input.old_str.v
            new == arg.input.new_str.v
            at == Positions(arg.fs.content, old)
            n == Cardinality(at)
        IN IF n = 1
           THEN LET i == CHOOSE k \in at : TRUE
                IN /\ ret.result.ok
                   /\ ret.fs.content =
                         SubSeq(arg.fs.content, 1, i - 1) \o new
                           \o SubSeq(arg.fs.content, i + Len(old), Len(arg.fs.content))
           ELSE /\ ~ret.result.ok
                /\ ret.fs = arg.fs
                /\ ret.result.s =
                      IF n = 0 THEN <<[c |-> "old_str not found", n |-> 1]>>
                      ELSE <<[c |-> "old_str found ", n |-> 1],
                             [c |-> ToString(n), n |-> 1],
                             [c |-> " times, must be unique", n |-> 1]>>

\* C15: when old_str equals new_str, both empty included, edit_file returns
\* the error 'old_str and new_str must differ' and leaves the target as it
\* was, whether it exists, is missing or is oversized
C15_SameStringsRejected ==
    (/\ fpc = "edited"
     /\ arg.input.path.some /\ arg.input.old_str.some /\ arg.input.new_str.some
     /\ arg.input.old_str.v = arg.input.new_str.v)
        => /\ ~ret.result.ok
           /\ ret.result.s = <<[c |-> "old_str and new_str must differ", n |-> 1]>>
           /\ ret.fs = arg.fs

C15_Witness ==
    /\ fpc = "edited"
    /\ arg.input.old_str.some /\ arg.input.new_str.some
    /\ arg.input.old_str.v = <<>> /\ arg.input.new_str.v = <<>>
    /\ ~arg.fs.exists /\ ~arg.fs.parent
    /\ ~ret.result.ok
    /\ ret.fs = arg.fs

\* the call has all three arguments, old_str empty and new_str not
CreateOrAppend ==
    /\ arg.input.path.some /\ arg.input.old_str.some /\ arg.input.new_str.some
    /\ arg.input.old_str.v = <<>>
    /\ arg.input.new_str.v # <<>>

CreatesWhenMissing ==
    (CreateOrAppend /\ ~arg.fs.exists) =>
        /\ ret.result.ok
        /\ ret.fs.exists
        /\ ret.fs.parent
        /\ ret.fs.content = arg.input.new_str.v
        /\ ret.fs.extra = 0

FailsWhenMissing ==
    (arg.input.path.some /\ arg.input.old_str.some /\ arg.input.new_str.some
       /\ arg.input.old_str.v # <<>> /\ ~arg.fs.exists) =>
        /\ ~ret.result.ok
        /\ ret.fs = arg.fs

Appended ==
    /\ ret.result.ok
    /\ ret.fs = [arg.fs EXCEPT !.content = @ \o arg.input.new_str.v]

C33_WitnessAppend ==
    /\ fpc = "edited"
    /\ CreateOrAppend
    /\ arg.fs = File(<<"a", "a">>, 0)
    /\ ret.fs = File(<<"a", "a", "b">>, 0)

----------------------------------------------------------------------------
(* Properties of bash *)

\* the command, lower-cased, holds a pattern of the deny-list
Denied ==
    /\ arg.command.some
    /\ \E k \in 1..Len(BLOCKED_PATTERNS) :
          \E i \in 1..Len(arg.command.v) :
             /\ i + Len(BLOCKED_PATTERNS[k]) - 1 <= Len(arg.command.v)
             /\ \A j \in 1..Len(BLOCKED_PATTERNS[k]) :
                   LET c == arg.command.v[i + j - 1]
                       l == IF \E u \in 1..26 : UpperCase[u] = c
                            THEN LowerCase[CHOOSE u \in 1..26 : UpperCase[u] = c]
                            ELSE c
                   IN l = BLOCKED_PATTERNS[k][j]

\* C16: when the lower-cased command holds a pattern of the deny-list, no
\* process is ever spawned and the call returns an error that starts with
\* 'blocked'; a process exists only after the check has let the command pass
C16_DenyListBeforeSpawn ==
    /\ Denied => /\ child.state = "none"
                 /\ fpc \in {"bash", "returned"}
                 /\ fpc = "returned" =>
                       /\ ~ret.ok
                       /\ ret.s[1].c = "blocked: command matches dangerous pattern '"
    /\ child.state # "none" => ~Denied /\ fpc # "bash"

C16_Witness ==
    /\ fpc = "returned"
    /\ Denied
    /\ \E i \in 1..Len(arg.command.v) : arg.command.v[i] = "R"
    /\ ~ret.ok
    /\ child.state = "none"

\* C17: when the child has not ended at the 120 s timeout, the call returns
\* only after it has sent the kill and waited for the child, and what it
\* returns is an error
C17_TimeoutKillsAndReaps ==
    /\ child.timed_out => child.elapsed = BASH_TIMEOUT
    /\ (fpc = "returned" /\ child.timed_out) =>
          /\ child.killed
          /\ child.state = "reaped"
          /\ ~ret.ok
    /\ (fpc = "returned" /\ child.state # "none" /\ ~child.timed_out) =>
          child.state = "reaped"

C17_Witness ==
    /\ fpc = "returned"
    /\ child.timed_out
    /\ child.status = Signalled(9)
    /\ child.state = "reaped"
    /\ ~ret.ok

\* what the child wrote, as bash_exec assembles and trims it
CapturedOutput ==
    trim(IF child.stdout # <<>> /\ child.stderr # <<>>
         THEN PushStr(PushStr(child.stdout, StderrSeparator), child.stderr)
         ELSE PushStr(child.stdout, child.stderr))

\* wait_timeout has returned the child's status
StatusReturned == fpc = "returned" /\ child.state = "reaped" /\ ~child.timed_out

Flag == dispatch_tool("bash", ObjectValue(<<>>), "t1", ret).is_error

\* C18 (as stated): a non-zero status gives an error whose text starts with
\* 'Command failed' and includes the captured output, a zero status gives a
\* success holding the trimmed captured output
C18_ExitStatusDecides ==
    StatusReturned =>
        IF success(child.status)
        THEN /\ ret.ok
             /\ Flag = None
             /\ ret.s = CapturedOutput
        ELSE /\ ~ret.ok
             /\ Flag = SomeTrue
             /\ ret.s[1].c = "Command failed ("
             /\ EndsWith(ret.s, CapturedOutput)

\* the text cut at the last character boundary at or below 100 KB and
\* followed by the marker, when it is longer than 100 KB
CappedAt100KB(t) ==
    IF TextLen(t) <= MAX_BASH_OUTPUT THEN t
    ELSE LET end == CHOOSE e \in (MAX_BASH_OUTPUT - 3)..MAX_BASH_OUTPUT :
                       /\ IsCharBoundary(t, e)
                       /\ \A f \in (e + 1)..MAX_BASH_OUTPUT : ~IsCharBoundary(t, f)
         IN PushStr(Truncate(t, end), OutputMarker)

\* C18 (amended): a non-zero status gives an error whose text is 'Command
\* failed (status): ' followed by the trimmed captured output, a zero status
\* gives a success holding the trimmed captured output; either text is cut
\* at 100 KB and followed by the truncation marker when it is longer
C18_ExitStatusDecidesCapped ==
    StatusReturned =>
        IF success(child.status)
        THEN /\ ret.ok
             /\ Flag = None
             /\ ret.s = CappedAt100KB(CapturedOutput)
        ELSE /\ ~ret.ok
             /\ Flag = SomeTrue
             /\ ret.s[1].c = "Command failed ("
             /\ ret.s = CappedAt100KB(
                          PushStr(PushStr(PushStr(Lit("Command failed ("),
                                                  StatusText(child.status)),
                                          Lit("): ")),
                                  CapturedOutput))

C18_Witness ==
    /\ StatusReturned
    /\ child.status = Exited(1)
    /\ TextLen(CapturedOutput) > MAX_BASH_OUTPUT
    /\ child.stderr # <<>>
    /\ ~ret.ok
    /\ EndsWith(ret.s, OutputMarker)

\* C34: bash_exec always returns, and it has returned by the time the
\* wall-clock timeout has passed, whatever the command writes and whichever
\* processes it leaves behind
C34_BashAlwaysReturns ==
    /\ [](fpc \in {"wait", "join_out", "join_err"} => child.elapsed <= BASH_TIMEOUT)
    /\ <>(fpc = "returned")

\* the same for the commands that leave no background process
C34_ReturnsWithoutBackground ==
    /\ [](~arg.forks =>
            (fpc \in {"wait", "join_out", "join_err"} => child.elapsed <= BASH_TIMEOUT))
    /\ ~arg.forks => <>(fpc = "returned")

\* the shell has ended in time, a background process holds the pipes, and
\* the call is still in join after the timeout has passed
C34_Stuck ==
    /\ fpc = "join_out"
    /\ child.shell = "reaped"
    /\ child.bg = "alive"
    /\ child.elapsed > BASH_TIMEOUT

----------------------------------------------------------------------------
(* Properties of the truncations *)

\* the call has cut the text
HasCut ==
    /\ fpc = "truncated"
    /\ ret.by = "truncate_oversized_blocks" => TextLen(arg.text) > TRUNCATE_ELIGIBLE

MarkerOf(by) ==
    IF by = "truncate_with_marker" THEN OutputMarker ELSE TruncationMarker

\* text made of multi-byte characters only
AllMultiByte(t) == t # <<>> /\ \A i \in 1..Len(t) : CharW(t[i].c) > 1

\* C19: both truncations cut at a character boundary of the text, keep
\* exactly the characters before the cut, and end the result with their
\* marker; this holds for texts made of multi-byte characters only
C19_TruncationBoundarySafe ==
    HasCut =>
        /\ ret.end <= TextLen(arg.text)
        /\ IsCharBoundary(arg.text, ret.end)
        /\ EndsWith(ret.s, MarkerOf(ret.by))
        /\ TextLen(ret.s) = ret.end + TextLen(MarkerOf(ret.by))
        /\ \A i \in 1..(Len(ret.s) - Len(MarkerOf(ret.by))) :
              /\ ret.s[i].c = arg.text[i].c
              /\ ret.s[i].n >= 1
              /\ ret.s[i].n <= arg.text[i].n

C19_Witness ==
    /\ HasCut
    /\ ret.by = "truncate_oversized_blocks"
    /\ AllMultiByte(arg.text)
    /\ ret.end < Max(SatSub(TextLen(arg.text), arg.remaining), TRUNCATE_KEEP_MIN)
    /\ EndsWith(ret.s, TruncationMarker)

----------------------------------------------------------------------------
(* Properties of list_files *)

RequestedDir == IF arg.input.path.some THEN arg.input.path.v ELSE <<>>

Recursive == arg.input.recursive.some /\ arg.input.recursive.v

Listed == fpc = "listed" /\ ret.ok

\* the entries the listing reports, as paths from the working directory
Reported == { Entry(RequestedDir \o ret.s.files[i].path, ret.s.files[i].dir, ret.s.files[i].n) :
                 i \in 1..Len(ret.s.files) }

\* the directories at or above the entry e, e included when it is one
DirsOf(p, dir) ==
    { SubSeq(p, 1, k) : k \in 1..(IF dir THEN Len(p) ELSE Len(p) - 1) }

InSkipSet(d) == d[Len(d)] \in SKIP_DIRS

\* the directories whose entries the listing is to report: the requested
\* one and, in a recursive listing, every directory reported
ListedDirs ==
    {RequestedDir} \cup (IF Recursive THEN {e.path : e \in {r \in Reported : r.dir}} ELSE {})

\* C20 (as stated): no directory of the skip set and nothing beneath one is
\* reported, and every other entry of a listed directory is reported
C20_SkipDirsNeverListed ==
    Listed =>
        /\ \A e \in Reported : \A d \in DirsOf(e.path, e.dir) : ~InSkipSet(d)
        /\ \A d \in ListedDirs : \A e \in ReadDir(arg.fs, d) :
              (e.dir /\ InSkipSet(e.path)) \/ e \in Reported

\* the entries below the requested directory that are to be reported: at
\* most MAX_WALK_DEPTH + 1 levels down, one level when not recursive, with
\* no directory of the skip set at or above them below the requested one
Expected ==
    { e \in arg.fs :
        /\ Len(e.path) > Len(RequestedDir)
        /\ SubSeq(e.path, 1, Len(RequestedDir)) = RequestedDir
        /\ Len(e.path) - Len(RequestedDir) <= (IF Recursive THEN MAX_WALK_DEPTH + 1 ELSE 1)
        /\ \A d \in DirsOf(e.path, e.dir) : Len(d) > Len(RequestedDir) => ~InSkipSet(d) }

\* C20 (amended): a directory of the skip set met below the requested path
\* is never reported, nor anything beneath it; every other entry down to
\* the depth ceiling is counted in the total and reported, the report being
\* cut to the first 1000 entries in sorted order when there are more
C20_SkipDirsBelowRequested ==
    Listed =>
        /\ \A e \in Reported :
              \A d \in DirsOf(e.path, e.dir) : Len(d) > Len(RequestedDir) => ~InSkipSet(d)
        /\ \A e \in Reported : \E x \in Expected : x.path = e.path /\ x.dir = e.dir /\ e.n <= x.n
        /\ ret.s.total = Count(Sorted(Expected))
        /\ Count(ret.s.files) = Min(ret.s.total, MAX_LIST_ENTRIES)
        /\ ret.s.total <= MAX_LIST_ENTRIES => Reported = Expected
        /\ \A i \in 1..(Len(ret.s.files) - 1) :
              PathLess(ret.s.files[i].path, ret.s.files[i + 1].path)
        /\ \A x \in Expected :
              (\A e \in Reported : e.path # x.path) =>
                  \A e \in Reported : PathLess(e.path, x.path)

C20_Witness ==
    /\ Listed
    /\ Recursive
    /\ RequestedDir = <<"src">>
    /\ ret.s.files # <<>>
    /\ \E e \in arg.fs :
          /\ Len(e.path) > 2 /\ SubSeq(e.path, 1, 1) = <<"src">>
          /\ \E d \in DirsOf(e.path, e.dir) : Len(d) > 1 /\ InSkipSet(d)
          /\ e \notin Reported
    /\ \E e \in Reported : Len(e.path) > 2

====
